---------------------------- MODULE Spec2Model ----------------------------
(* A model of the GutenOCR demo pipeline: the OCR engine                    *)
(* (gutenocr_engine.py), the combined Docling + GutenOCR processor          *)
(* (docling_gutenocr_combined.py) and the file processor                    *)
(* (file_processor.py).                                                     *)
(*                                                                          *)
(* Python values are modelled as follows.                                   *)
(*   - A dict is a TLA+ record (a function on the strings that are its      *)
(*     keys); an optional key is a key that may be missing from DOMAIN.     *)
(*   - None is the record None.                                             *)
(*   - A file path is a sequence of one-character strings, so that glob     *)
(*     matching, str.upper() and sorted() are computed on characters.       *)
(*   - A text is a sequence of atoms (strings): the empty text is << >>,    *)
(*     a line feed is the atom NL, str + str is \o.                         *)
(*   - An exception is the record [raised |-> TRUE, msg |-> ...] in the     *)
(*     place of the value a call returns.                                   *)
EXTENDS Integers, Sequences, FiniteSets, TLC

VARIABLES
    caseSensitive,      \* the platform's glob matching: TRUE on POSIX, FALSE on Windows
    dirEntries,         \* the files found under the input directory
    cuda_available,     \* torch.cuda.is_available()
    engine,             \* the GutenOCREngine in use (GutenOCRUI.engine): its fields, or None
    input_dir,          \* FileProcessor.input_dir
    output_dir,         \* FileProcessor.output_dir
    processor,          \* DoclingGutenOCRUI.processor: the processor's engine, or None
    handler,            \* the UI handler that is waiting for a batch to return
    current_model,      \* GutenOCRUI.current_model: the model choice, or None
    self_use_cpu,       \* GutenOCRUI.use_cpu
    DOCLING_AVAILABLE,  \* module global: the docling import succeeded
    use_docling,        \* DoclingGutenOCRProcessor.use_docling
    docling_converter,  \* DoclingGutenOCRProcessor.docling_converter
    pc,                 \* the call in progress: "idle" or the batch that is running
    op,                 \* the last public operation that completed
    args,               \* the arguments of that operation
    ret,                \* the value it returned (or the exception it raised)
    calls,              \* the stage invocations made by the call, in order
    files,              \* batch: the list being iterated
    idx,                \* batch: number of list entries already processed
    results             \* batch: the result list built so far

vars == << caseSensitive, dirEntries, cuda_available, engine, input_dir,
           output_dir, processor, handler, current_model, self_use_cpu,
           DOCLING_AVAILABLE, use_docling,
           docling_converter, pc, op, args, ret, calls, files, idx, results >>

-----------------------------------------------------------------------------
(* Bounds *)

\* largest number of entries under the input directory
MaxFiles == 2

\* largest number of tables Docling reports for one document
MaxTables == 1

\* largest length of the list handed to GutenOCREngine.batch_process
MaxBatch == 2

-----------------------------------------------------------------------------
(* Python values *)

None == [none |-> TRUE]

\* dict.get(k, d)
Get(d, k, default) == IF k \in DOMAIN d THEN d[k] ELSE default

\* bool(x) of a dict or None: None and the empty dict are falsy
TruthyDict(x) == x # None /\ DOMAIN x # {}

\* bool(x) of a str or a list
TruthySeq(x) == x # << >>

Raise(m) == [raised |-> TRUE, msg |-> m]

Raised(x) == "raised" \in DOMAIN x

-----------------------------------------------------------------------------
(* Characters and strings *)

\* the characters of the model in code point order
Chars == << ".", "/",
            "A", "B", "C", "D", "E", "F", "G", "H", "I", "J", "K", "L", "M",
            "N", "O", "P", "Q", "R", "S", "T", "U", "V", "W", "X", "Y", "Z",
            "a", "b", "c", "d", "e", "f", "g", "h", "i", "j", "k", "l", "m",
            "n", "o", "p", "q", "r", "s", "t", "u", "v", "w", "x", "y", "z" >>

\* ord(c), up to a monotone renumbering
Code(c) == CHOOSE i \in 1..Len(Chars) : Chars[i] = c

IsLower(c) == Code(c) >= Code("a")

IsUpper(c) == Code(c) >= Code("A") /\ Code(c) <= Code("Z")

\* str.upper() and str.lower()
Upper(s) == [i \in 1..Len(s) |-> IF IsLower(s[i]) THEN Chars[Code(s[i]) - 26] ELSE s[i]]

Lower(s) == [i \in 1..Len(s) |-> IF IsUpper(s[i]) THEN Chars[Code(s[i]) + 26] ELSE s[i]]

\* s < t on Python strings: lexicographic on code points
RECURSIVE StrLess(_, _)
StrLess(s, t) ==
    IF t = << >> THEN FALSE
    ELSE IF s = << >> THEN TRUE
    ELSE IF Code(Head(s)) # Code(Head(t)) THEN Code(Head(s)) < Code(Head(t))
    ELSE StrLess(Tail(s), Tail(t))

StrLeq(s, t) == s = t \/ StrLess(s, t)

EndsWith(s, suffix) ==
    /\ Len(s) >= Len(suffix)
    /\ SubSeq(s, Len(s) - Len(suffix) + 1, Len(s)) = suffix

\* "/".join(parts)
RECURSIVE JoinPath(_)
JoinPath(parts) ==
    IF Len(parts) = 1 THEN parts[1]
    ELSE parts[1] \o << "/" >> \o JoinPath(Tail(parts))

\* sorted(list) of strings, by insertion
RECURSIVE Insert(_, _)
Insert(x, sorted) ==
    IF sorted = << >> THEN << x >>
    ELSE IF StrLess(x, Head(sorted)) THEN << x >> \o sorted
    ELSE << Head(sorted) >> \o Insert(x, Tail(sorted))

RECURSIVE Sorted(_)
Sorted(list) ==
    IF list = << >> THEN << >>
    ELSE Insert(Head(list), Sorted(Tail(list)))

Range(s) == { s[i] : i \in 1..Len(s) }

\* the sequences that list every element of the set S once
Orders(S) == { s \in [1..Cardinality(S) -> S] : Range(s) = S }


-----------------------------------------------------------------------------
(* The file system and FileProcessor.discover_images *)

\* FileProcessor.SUPPORTED_EXTENSIONS
SUPPORTED_EXTENSIONS ==
    { << ".", "p", "n", "g" >>,
      << ".", "j", "p", "g" >>,
      << ".", "j", "p", "e", "g" >>,
      << ".", "t", "i", "f", "f" >>,
      << ".", "t", "i", "f" >>,
      << ".", "b", "m", "p" >>,
      << ".", "g", "i", "f" >>,
      << ".", "w", "e", "b", "p" >>,
      << ".", "p", "d", "f" >> }

\* FileProcessor.input_dir as constructed by default: Path("./input")
InputDir == << "i", "n", "p", "u", "t" >>

\* FileProcessor.output_dir as constructed by default: Path("./output")
OutputDir == << "o", "u", "t", "p", "u", "t" >>

\* another pair of directories a caller may hand to batch_process; the other
\* input directory holds no files
OtherInputDir == << "d", "o", "c", "s" >>

OtherOutputDir == << "o", "u", "t" >>

\* the entries below the directory dir
Entries(dir) == IF dir = InputDir THEN dirEntries ELSE {}

File(parts) == [parts |-> parts]

\* the files the input directory may hold: each is a path below the input
\* directory, given by its components
FileUniverse ==
    { File(<< << "a", ".", "p", "n", "g" >> >>),
      File(<< << "B", ".", "P", "D", "F" >> >>),
      File(<< << "c", ".", "J", "p", "g" >> >>),
      File(<< << "d", ".", "t", "x", "t" >> >>),
      File(<< << "s", "u", "b" >>, << "e", ".", "t", "i", "f" >> >>),
      File(<< << "f", ".", "t", "i", "f", "f" >> >>) }

Name(entry) == entry.parts[Len(entry.parts)]

\* str(f) of a path the glob yields
PathStr(entry) == JoinPath(<< InputDir >> \o entry.parts)

\* Path.glob matches a name against the pattern "*" + suffix with the
\* platform's casing rule
MatchesSuffix(name, suffix) ==
    IF caseSensitive THEN EndsWith(name, suffix)
    ELSE EndsWith(Lower(name), Lower(suffix))

\* input_dir.rglob("*" + suffix) (recursive) or input_dir.glob("*" + suffix),
\* listed in the order scanOrder in which the file system yields the entries
Glob(dir, suffix, recursive, scanOrder) ==
    SelectSeq(scanOrder,
              LAMBDA e : /\ e \in Entries(dir)
                         /\ recursive \/ Len(e.parts) = 1
                         /\ MatchesSuffix(Name(e), suffix))

\* the loop of discover_images over the extensions in the order extOrder
RECURSIVE GlobAll(_, _, _, _)
GlobAll(dir, extOrder, recursive, scanOrder) ==
    IF extOrder = << >> THEN << >>
    ELSE Glob(dir, Head(extOrder), recursive, scanOrder)
         \o Glob(dir, Upper(Head(extOrder)), recursive, scanOrder)
         \o GlobAll(dir, Tail(extOrder), recursive, scanOrder)

\* the extensions whose globs yield anything: the iteration order of the set
\* SUPPORTED_EXTENSIONS matters only among these
MatchingExtensions(dir) ==
    { ext \in SUPPORTED_EXTENSIONS :
        \E e \in Entries(dir) : \/ MatchesSuffix(Name(e), ext)
                              \/ MatchesSuffix(Name(e), Upper(ext)) }

\* a variant that converts to strings and does not sort
SortPathsUnsorted(image_files) ==
    [i \in 1..Len(image_files) |-> PathStr(image_files[i])]

\* the last step of discover_images: sorted([str(f) for f in image_files])
SortPaths(image_files) ==
    Sorted([i \in 1..Len(image_files) |-> PathStr(image_files[i])])

\* a variant that returns every entry, whatever its extension
discover_images_every_entry(dir, recursive, extOrder, scanOrder) ==
    SortPaths(SelectSeq(scanOrder, LAMBDA e : e \in Entries(dir)))

\* FileProcessor.discover_images(recursive) of a file processor whose
\* input_dir is dir
discover_images(dir, recursive, extOrder, scanOrder) ==
    SortPaths(GlobAll(dir, extOrder, recursive, scanOrder))

-----------------------------------------------------------------------------
(* GutenOCREngine *)

\* the dict literal of _generate_prompt
Prompts ==
    [ reading |->
        [ TEXT |-> "Read all text in the image and return a single TEXT string, linearized left-to-right/top-to-bottom.",
          TEXT2D |-> "Return a layout-sensitive TEXT2D representation of the image.",
          LINES |-> "Return line-by-line OCR as LINES with bounding boxes.",
          WORDS |-> "Return word-by-word OCR as WORDS with bounding boxes.",
          PARAGRAPHS |-> "Return paragraph-wise OCR as PARAGRAPHS with bounding boxes.",
          LATEX |-> "Extract all LaTeX expressions with bounding boxes." ],
      detection |->
        [ BOX |-> "Highlight all text regions in the image by returning their bounding boxes as a JSON array." ],
      localized_reading |->
        [ TEXT |-> "What does it say in the specified region of the image?" ],
      conditional_detection |->
        [ BOX |-> "Find and return bounding boxes for the specified text query." ] ]

DefaultPrompt == "Read all text in the image."

\* a variant that falls back to the "reading" table for an unknown task
\* instead of the empty dict
_generate_prompt_reading_fallback(task_type, output_format) ==
    Get(Get(Prompts, task_type, Prompts["reading"]), output_format, DefaultPrompt)

\* GutenOCREngine._generate_prompt:
\*   prompts.get(task_type, {}).get(output_format, "Read all text in the image.")
_generate_prompt(task_type, output_format) ==
    Get(Get(Prompts, task_type, << >>), output_format, DefaultPrompt)

\* the task types and output formats a caller may pass: those of the
\* docstring, and one of each that the table does not know
TaskTypes ==
    { "reading", "detection", "localized_reading", "conditional_detection",
      "summarize" }

OutputFormats ==
    { "TEXT", "TEXT2D", "LINES", "WORDS", "PARAGRAPHS", "LATEX", "BOX", "XML" }

\* custom_prompt: Optional[str]; NoneStr stands for None
NoneStr == "<None>"

CustomPrompts == { NoneStr, "", "Transcribe the stamp only." }

\* bool(s) for an Optional[str]
TruthyStr(s) == s # NoneStr /\ s # ""

\* the statements of process_image's try block that can raise
OcrStages == { "open", "inputs", "generate", "decode" }

\* str(e) of the exception a stage raises; an exception built without
\* arguments has the empty message
ErrorMessages == { "", "RuntimeError: failed" }

OcrFail(stage, msg) == [ok |-> FALSE, stage |-> stage, msg |-> msg]

OcrOk(text) == [ok |-> TRUE, text |-> text]

\* the texts the model generates: the empty text and a non-empty one
OcrTexts == { << >>, << "ocr-text" >> }

\* what the image, the processor and the model do during one process_image
OcrOutcomes ==
    { OcrFail(st, m) : st \in OcrStages, m \in ErrorMessages }
    \cup { OcrOk(t) : t \in OcrTexts }

Return(v) == [value |-> v]

-----------------------------------------------------------------------------
(* GutenOCREngine.__init__ and get_device_info *)

ModelIds == { "rootsautomation/GutenOCR-3B", "rootsautomation/GutenOCR-7B" }

\* the device argument: "auto" is the default
Devices == { "auto", "cuda", "cpu" }

\* torch.dtype objects, by name
Dtypes == { "float16", "float32", "bfloat16" }

\* the torch_dtype argument: Optional[torch.dtype]
TorchDtypes == Dtypes \cup { NoneStr }

\* x or default, for an Optional[torch.dtype]: a dtype object is truthy
OrDtype(x, default) == IF x # NoneStr THEN x ELSE default

\* str(dtype), e.g. "torch.float32"
StrDtype(dtype) == << "torch.", dtype >>

\* a variant that takes the requested device whenever CUDA is available,
\* whatever use_cpu says
EngineFieldsIgnoringUseCpu(model_id, device, use_cpu, torch_dtype, cuda) ==
    IF ~cuda
    THEN [ model_id |-> model_id, use_cpu |-> use_cpu, device |-> "cpu",
           torch_dtype |-> OrDtype(torch_dtype, "float32") ]
    ELSE [ model_id |-> model_id, use_cpu |-> use_cpu, device |-> device,
           torch_dtype |-> OrDtype(torch_dtype, "bfloat16") ]

\* lines 38-49 of __init__: the fields chosen from the arguments and from
\* torch.cuda.is_available()
EngineFields(model_id, device, use_cpu, torch_dtype, cuda) ==
    IF use_cpu \/ ~cuda
    THEN [ model_id |-> model_id, use_cpu |-> use_cpu, device |-> "cpu",
           torch_dtype |-> OrDtype(torch_dtype, "float32") ]
    ELSE [ model_id |-> model_id, use_cpu |-> use_cpu, device |-> device,
           torch_dtype |-> OrDtype(torch_dtype, "bfloat16") ]

\* GutenOCREngine(...): the engine, or the exception _load_model re-raises
\* (lines 76-78) or AutoProcessor.from_pretrained raises (line 54)
GutenOCREngine(model_id, device, use_cpu, torch_dtype, cuda, loadOk) ==
    IF loadOk
    THEN Return(EngineFields(model_id, device, use_cpu, torch_dtype, cuda))
    ELSE Raise("OSError: cannot load the model")

\* GutenOCREngine.get_device_info on the engine e; count is
\* torch.cuda.device_count()
get_device_info(e, cuda, count) ==
    [ device |-> e.device,
      use_cpu |-> e.use_cpu,
      torch_dtype |-> StrDtype(e.torch_dtype),
      cuda_available |-> cuda,
      cuda_device_count |-> IF cuda THEN count ELSE 0,
      model_id |-> e.model_id ]

\* the engine the UIs and the processor construct by default
DefaultEngine ==
    EngineFields("rootsautomation/GutenOCR-3B", "auto", FALSE, NoneStr, FALSE)

-----------------------------------------------------------------------------
(* GutenOCREngine.process_image *)

\* a variant that always takes the prompt from the table
ChosenPromptFromTable(task_type, output_format, custom_prompt) ==
    _generate_prompt(task_type, output_format)

\* lines 106-109: the prompt that goes into the user turn of the messages
ChosenPrompt(task_type, output_format, custom_prompt) ==
    IF TruthyStr(custom_prompt) THEN custom_prompt
    ELSE _generate_prompt(task_type, output_format)

\* the text of the user turn handed to the processor and the model (lines
\* 112-147); nothing is handed over when the image could not be opened
PromptSent(task_type, output_format, custom_prompt, outcome) ==
    IF ~outcome.ok /\ outcome.stage = "open" THEN NoneStr
    ELSE ChosenPrompt(task_type, output_format, custom_prompt)

\* the try block of process_image (lines 101-167): the value it returns, or
\* the exception one of its statements raises
process_image_try(image_path, task_type, output_format, custom_prompt, outcome) ==
    LET prompt == ChosenPrompt(task_type, output_format, custom_prompt)
    IN  IF ~outcome.ok THEN Raise(outcome.msg)
        ELSE Return([ success |-> TRUE,
                      image_path |-> image_path,
                      task_type |-> task_type,
                      output_format |-> output_format,
                      text |-> outcome.text,
                      prompt |-> prompt ])

\* a variant without the except clause: the exception reaches the caller
process_image_no_except(image_path, task_type, output_format, custom_prompt, outcome) ==
    process_image_try(image_path, task_type, output_format, custom_prompt, outcome)

\* GutenOCREngine.process_image: the try block and its except clause
\* (lines 169-175)
process_image(image_path, task_type, output_format, custom_prompt, outcome) ==
    LET r == process_image_try(image_path, task_type, output_format,
                               custom_prompt, outcome)
    IN  IF Raised(r)
        THEN Return([ success |-> FALSE,
                      image_path |-> image_path,
                      error |-> r.msg ])
        ELSE r

-----------------------------------------------------------------------------
(* DoclingGutenOCRProcessor *)

NL == "\n"

BannerStructure == "=== DOCUMENT STRUCTURE (Docling) ==="

BannerTables == "=== EXTRACTED TABLES ==="

BannerOcr == "=== OCR CONTENT (GutenOCR) ==="

\* str(idx) for the table numbers
DigitStr(i) == << "1", "2", "3", "4", "5", "6", "7", "8", "9" >>[i]

\* separator.join(pieces) on texts
RECURSIVE Join(_, _)
Join(separator, pieces) ==
    IF pieces = << >> THEN << >>
    ELSE IF Len(pieces) = 1 THEN pieces[1]
    ELSE pieces[1] \o separator \o Join(separator, Tail(pieces))

\* a variant whose except clause does not reset use_docling
ProcessorFieldsFlagKept(available, requested, converterOk) ==
    IF requested /\ available
    THEN IF converterOk
         THEN [use_docling |-> TRUE, docling_converter |-> "DocumentConverter"]
         ELSE [use_docling |-> TRUE, docling_converter |-> "<unset>"]
    ELSE [use_docling |-> FALSE, docling_converter |-> NoneStr]

\* DoclingGutenOCRProcessor.__init__, lines 55-82: the fields it leaves,
\* given whether Docling was requested and whether DocumentConverter(...)
\* could be constructed.  After a failed construction the attribute
\* docling_converter was never assigned.
ProcessorFields(available, requested, converterOk) ==
    IF requested /\ available
    THEN IF converterOk
         THEN [use_docling |-> TRUE, docling_converter |-> "DocumentConverter"]
         ELSE [use_docling |-> FALSE, docling_converter |-> "<unset>"]
    ELSE [use_docling |-> FALSE, docling_converter |-> NoneStr]

\* a table of a converted document: table.export_to_dataframe().to_dict()
\* printed by str(), and its caption
Table(caption) == [data |-> << "{table-data}" >>, caption |-> caption]

TableValues == { Table(<< >>), Table(<< "table-caption" >>) }

TableLists == UNION { [1..n -> TableValues] : n \in 0..MaxTables }

\* conv_result.document.export_to_markdown()
DoclingTexts == { << >>, << "docling-markdown" >> }

DoclingFail(msg) == [ok |-> FALSE, msg |-> msg]

DoclingOk(text, tables) == [ok |-> TRUE, text |-> text, tables |-> tables]

\* what the Docling converter does with one file
DoclingOutcomes ==
    { DoclingFail(m) : m \in ErrorMessages }
    \cup { DoclingOk(t, tl) : t \in DoclingTexts, tl \in TableLists }

\* the try block of _process_with_docling (lines 168-190)
_process_with_docling_try(file_path, extract_tables, outcome) ==
    IF docling_converter # "DocumentConverter"
    THEN Raise("'NoneType' object has no attribute 'convert'")
    ELSE IF ~outcome.ok THEN Raise(outcome.msg)
    ELSE Return([ text |-> outcome.text,
                  structure |-> [pages |-> 1, elements |-> << >>],
                  tables |-> IF extract_tables THEN outcome.tables ELSE << >>,
                  metadata |-> << >> ])

\* a variant without the except clause
_process_with_docling_no_except(file_path, extract_tables, outcome) ==
    _process_with_docling_try(file_path, extract_tables, outcome)

\* DoclingGutenOCRProcessor._process_with_docling: the try block and its
\* except clause (lines 192-194)
_process_with_docling(file_path, extract_tables, outcome) ==
    LET r == _process_with_docling_try(file_path, extract_tables, outcome)
    IN  IF Raised(r) THEN Return([error |-> r.msg]) ELSE r

\* the pieces _merge_results appends for the tables (lines 222-227)
RECURSIVE TablePieces(_, _)
TablePieces(tables, i) ==
    IF i > Len(tables) THEN << >>
    ELSE << << NL, "Table ", DigitStr(i), ":" >> >>
         \o ( IF TruthySeq(tables[i].caption)
              THEN << << "Caption: " >> \o tables[i].caption >>
              ELSE << >> )
         \o << tables[i].data, << NL >> >>
         \o TablePieces(tables, i + 1)

\* a variant that puts the OCR section first
MergedPiecesOcrFirst(docling_result, gutenocr_result) ==
    ( IF /\ Get(gutenocr_result, "success", FALSE)
         /\ TruthySeq(Get(gutenocr_result, "text", << >>))
      THEN << << NL, BannerOcr, NL >>, gutenocr_result.text >>
      ELSE << >> )
    \o ( IF TruthySeq(Get(docling_result, "text", << >>))
         THEN << << BannerStructure, NL >>, docling_result.text, << NL >> >>
         ELSE << >> )
    \o ( IF TruthySeq(Get(docling_result, "tables", << >>))
         THEN << << NL, BannerTables, NL >> >>
              \o TablePieces(docling_result.tables, 1)
         ELSE << >> )

\* the list merged_text of _merge_results before it is joined
MergedPieces(docling_result, gutenocr_result) ==
    ( IF TruthySeq(Get(docling_result, "text", << >>))
      THEN << << BannerStructure, NL >>, docling_result.text, << NL >> >>
      ELSE << >> )
    \o ( IF TruthySeq(Get(docling_result, "tables", << >>))
         THEN << << NL, BannerTables, NL >> >>
              \o TablePieces(docling_result.tables, 1)
         ELSE << >> )
    \o ( IF /\ Get(gutenocr_result, "success", FALSE)
            /\ TruthySeq(Get(gutenocr_result, "text", << >>))
         THEN << << NL, BannerOcr, NL >>, gutenocr_result.text >>
         ELSE << >> )

\* a variant that writes the tables banner whether or not there are tables
_merge_results_always_tables(docling_result, gutenocr_result) ==
    Join(<< NL >>,
         ( IF TruthySeq(Get(docling_result, "text", << >>))
           THEN << << BannerStructure, NL >>, docling_result.text, << NL >> >>
           ELSE << >> )
         \o << << NL, BannerTables, NL >> >>
         \o TablePieces(Get(docling_result, "tables", << >>), 1)
         \o ( IF /\ Get(gutenocr_result, "success", FALSE)
                 /\ TruthySeq(Get(gutenocr_result, "text", << >>))
              THEN << << NL, BannerOcr, NL >>, gutenocr_result.text >>
              ELSE << >> ))

\* DoclingGutenOCRProcessor._merge_results
_merge_results(docling_result, gutenocr_result) ==
    Join(<< NL >>, MergedPieces(docling_result, gutenocr_result))

\* a variant that starts without the timestamp
NewResultWithoutTimestamp(file_path) ==
    [ file_path |-> file_path,
      docling_structure |-> None,
      gutenocr_ocr |-> None,
      combined_text |-> << >>,
      metadata |-> << >> ]

\* the dict process_document starts from (lines 105-112)
NewResult(file_path) ==
    [ file_path |-> file_path,
      timestamp |-> "<now>",
      docling_structure |-> None,
      gutenocr_ocr |-> None,
      combined_text |-> << >>,
      metadata |-> << >> ]

Running(result) == [raised |-> FALSE, result |-> result]

Failed(result, msg) == [raised |-> TRUE, result |-> result, msg |-> msg]

\* a variant of step 1 that sets the flag whether or not Docling ran
DoclingStepAlwaysFlagged(result, extract_structure, extract_tables, docOut) ==
    LET flagged == [result EXCEPT
                      !.metadata = @ @@ ("docling_processed" :> TRUE)]
    IN  IF ~(use_docling /\ extract_structure) THEN Running(flagged)
        ELSE LET d == _process_with_docling(result.file_path, extract_tables, docOut)
             IN  IF Raised(d) THEN Failed(result, d.msg)
                 ELSE Running([flagged EXCEPT !.docling_structure = d.value])

\* Step 1 of process_document (lines 115-123)
DoclingStep(result, extract_structure, extract_tables, docOut) ==
    IF ~(use_docling /\ extract_structure) THEN Running(result)
    ELSE LET d == _process_with_docling(result.file_path, extract_tables, docOut)
         IN  IF Raised(d) THEN Failed(result, d.msg)
             ELSE Running([result EXCEPT
                      !.docling_structure = d.value,
                      !.metadata = @ @@ ("docling_processed" :> TRUE)])

\* Step 2 of process_document (lines 125-137), reached unless step 1 raised
OcrStep(st, ocr_images, ocrOut) ==
    IF st.raised \/ ~ocr_images THEN st
    ELSE LET o == process_image(st.result.file_path, "reading", "TEXT2D",
                                NoneStr, ocrOut)
         IN  IF Raised(o) THEN Failed(st.result, o.msg)
             ELSE Running([st.result EXCEPT
                      !.gutenocr_ocr = o.value,
                      !.metadata = @ @@ ("gutenocr_processed" :> TRUE),
                      !.combined_text =
                          IF Get(o.value, "success", FALSE)
                          THEN Get(o.value, "text", << >>) ELSE @])

\* Step 3 of process_document (lines 139-151)
CombineStep(result) ==
    IF TruthyDict(result.docling_structure) /\ TruthyDict(result.gutenocr_ocr)
    THEN [result EXCEPT
            !.combined_text = _merge_results(result.docling_structure,
                                             result.gutenocr_ocr),
            !.metadata = @ @@ ("processing_mode" :> "combined")]
    ELSE IF TruthyDict(result.docling_structure)
    THEN [result EXCEPT
            !.combined_text = Get(result.docling_structure, "text", << >>),
            !.metadata = @ @@ ("processing_mode" :> "docling_only")]
    ELSE IF TruthyDict(result.gutenocr_ocr)
    THEN [result EXCEPT
            !.combined_text = Get(result.gutenocr_ocr, "text", << >>),
            !.metadata = @ @@ ("processing_mode" :> "gutenocr_only")]
    ELSE result

\* the stage invocations process_document makes, with what each stage did
DocumentCalls(file_path, extract_structure, extract_tables, ocr_images, docOut, ocrOut) ==
    LET st == DoclingStep(NewResult(file_path), extract_structure,
                          extract_tables, docOut)
    IN  ( IF use_docling /\ extract_structure
          THEN << [stage |-> "docling", file |-> file_path, outcome |-> docOut] >>
          ELSE << >> )
        \o ( IF ~st.raised /\ ocr_images
             THEN << [stage |-> "ocr", file |-> file_path, outcome |-> ocrOut] >>
             ELSE << >> )

\* DoclingGutenOCRProcessor.process_document
process_document(file_path, extract_structure, extract_tables, ocr_images, docOut, ocrOut) ==
    LET st == OcrStep(DoclingStep(NewResult(file_path), extract_structure,
                                  extract_tables, docOut),
                      ocr_images, ocrOut)
    IN  IF st.raised
        THEN Return(st.result @@ ("success" :> FALSE) @@ ("error" :> st.msg))
        ELSE Return(CombineStep(st.result) @@ ("success" :> TRUE))

\* DoclingGutenOCRProcessor.get_capabilities
get_capabilities(docling, e, cuda, count) ==
    [ docling_available |-> docling,
      gutenocr_model |-> e.model_id,
      device_info |-> get_device_info(e, cuda, count),
      supported_formats |->
          IF docling
          THEN << "PDF", "DOCX", "PPTX", "PNG", "JPG", "JPEG", "TIFF",
                  "BMP", "GIF", "WEBP", "HTML", "MD" >>
          ELSE << "PNG", "JPG", "JPEG", "TIFF", "BMP", "GIF", "WEBP", "PDF" >> ]

-----------------------------------------------------------------------------
(* Initial states *)

\* the paths handed to the single-file operations
SamplePaths ==
    { PathStr(File(<< << "a", ".", "p", "n", "g" >> >>)),
      PathStr(File(<< << "B", ".", "P", "D", "F" >> >>)) }

Pending == [pending |-> TRUE]

\* no call has been made yet
InitCalls ==
    /\ pc = "idle"
    /\ op = "none"
    /\ args = None
    /\ ret = Pending
    /\ calls = << >>
    /\ files = << >>
    /\ idx = 0
    /\ results = << >>

\* a processor constructed by DoclingGutenOCRProcessor.__init__
InitProcessor ==
    \E available \in BOOLEAN, requested \in BOOLEAN, converterOk \in BOOLEAN :
        LET f == ProcessorFields(available, requested, converterOk)
        IN  /\ DOCLING_AVAILABLE = available
            /\ use_docling = f.use_docling
            /\ docling_converter = f.docling_converter

\* the engine constructed with the default arguments on a machine without
\* CUDA, and the processor that holds it
InitEngine ==
    /\ cuda_available = FALSE
    /\ engine = DefaultEngine
    /\ current_model = NoneStr
    /\ self_use_cpu = FALSE
    /\ processor = [gutenocr |-> DefaultEngine]
    /\ handler = "none"

\* FileProcessor.__init__ with the default directories
InitDirectories ==
    /\ input_dir = InputDir
    /\ output_dir = OutputDir

\* an input directory with at most MaxFiles entries, on either platform
InitFileSystem ==
    /\ caseSensitive \in BOOLEAN
    /\ dirEntries \in { S \in SUBSET FileUniverse : Cardinality(S) <= MaxFiles }

\* an empty input directory on a POSIX platform
InitEmptyDirectory ==
    /\ caseSensitive = TRUE
    /\ dirEntries = {}

Init ==
    /\ InitEmptyDirectory /\ InitDirectories /\ InitEngine
    /\ InitProcessor /\ InitCalls

-----------------------------------------------------------------------------
(* Single calls *)

selection == << current_model, self_use_cpu >>

environment == << caseSensitive, dirEntries, cuda_available, engine, processor,
                  handler, selection, DOCLING_AVAILABLE, use_docling,
                  docling_converter >>

directories == << input_dir, output_dir >>

batch == << files, idx, results >>

\* the caller has used the value the last call returned and is ready to
\* make the next call; the objects keep their fields
NextCall ==
    /\ pc = "idle" /\ op # "none" /\ handler = "none"
    /\ op' = "none"
    /\ args' = None
    /\ ret' = Pending
    /\ calls' = << >>
    /\ files' = << >>
    /\ idx' = 0
    /\ results' = << >>
    /\ UNCHANGED << pc, environment, directories >>

\* a call of GutenOCREngine._generate_prompt
GeneratePrompt ==
    /\ pc = "idle" /\ op = "none"
    /\ \E t \in TaskTypes, f \in OutputFormats :
        /\ op' = "_generate_prompt"
        /\ args' = [task_type |-> t, output_format |-> f]
        /\ ret' = Return(_generate_prompt(t, f))
    /\ calls' = << >>
    /\ UNCHANGED << pc, environment, directories, batch >>

\* a call of GutenOCREngine.process_image
ProcessImage ==
    /\ pc = "idle" /\ op = "none"
    /\ \E p \in SamplePaths, t \in TaskTypes, f \in OutputFormats,
          c \in CustomPrompts, o \in OcrOutcomes :
        /\ op' = "process_image"
        /\ args' = [image_path |-> p, task_type |-> t, output_format |-> f,
                    custom_prompt |-> c]
        /\ ret' = process_image(p, t, f, c, o)
        /\ calls' = << [stage |-> "ocr", file |-> p, outcome |-> o,
                        prompt |-> PromptSent(t, f, c, o)] >>
    /\ UNCHANGED << pc, environment, directories, batch >>

\* a call of DoclingGutenOCRProcessor.process_document
ProcessDocument ==
    /\ pc = "idle" /\ op = "none"
    /\ \E p \in SamplePaths, es \in BOOLEAN, et \in BOOLEAN, oi \in BOOLEAN,
          d \in DoclingOutcomes, o \in OcrOutcomes :
        /\ op' = "process_document"
        /\ args' = [file_path |-> p, extract_structure |-> es,
                    extract_tables |-> et, ocr_images |-> oi]
        /\ ret' = process_document(p, es, et, oi, d, o)
        /\ calls' = DocumentCalls(p, es, et, oi, d, o)
    /\ UNCHANGED << pc, environment, directories, batch >>

Next == GeneratePrompt \/ ProcessImage \/ ProcessDocument \/ NextCall

Spec == Init /\ [][Next]_vars

-----------------------------------------------------------------------------
(* Discovery and the batches *)

\* a call of FileProcessor.discover_images
DiscoverImages ==
    /\ pc = "idle" /\ op = "none"
    /\ \E recursive \in BOOLEAN, extOrder \in Orders(MatchingExtensions(input_dir)),
          scanOrder \in Orders(dirEntries) :
        /\ op' = "discover_images"
        /\ args' = [recursive |-> recursive]
        /\ ret' = Return(discover_images(input_dir, recursive, extOrder, scanOrder))
    /\ calls' = << >>
    /\ UNCHANGED << pc, environment, directories, batch >>

\* In a batch each stage either fails or succeeds on a file; the variety of
\* texts, tables and failing statements is explored by the single calls.
BatchDoclingOutcomes ==
    { DoclingFail("RuntimeError: failed"),
      DoclingOk(<< "docling-markdown" >>, << >>) }

BatchOcrOutcomes ==
    { OcrFail("open", "RuntimeError: failed"), OcrOk(<< "ocr-text" >>) }

\* the (task_type, output_format) pairs the engine batches are run with:
\* the defaults of batch_process
BatchTasks == { << "reading", "TEXT" >> }

\* the lists handed to GutenOCREngine.batch_process
ImageLists == UNION { [1..n -> SamplePaths] : n \in 0..MaxBatch }

\* a variant that stops the loop at the first record that reports a failure
\* of a stage
DocBatchBodyStopOnFailure(list, file_path, flags, docOut, ocrOut) ==
    LET r == process_document(file_path, flags.extract_structure,
                              flags.extract_tables, flags.ocr_images,
                              docOut, ocrOut)
    IN  IF Raised(r) THEN r
        ELSE IF \/ "error" \in DOMAIN Get(r.value, "docling_structure", None)
                \/ "error" \in DOMAIN Get(r.value, "gutenocr_ocr", None)
        THEN Raise("stage failed")
        ELSE Return(Append(list, r.value))

\* a variant that puts the record of a file in front of the records of the
\* files before it
DocBatchBodyPrepend(list, file_path, flags, docOut, ocrOut) ==
    LET r == process_document(file_path, flags.extract_structure,
                              flags.extract_tables, flags.ocr_images,
                              docOut, ocrOut)
    IN  IF Raised(r) THEN r ELSE Return(<< r.value >> \o list)

\* the loop body of DoclingGutenOCRProcessor.batch_process (lines 265-273):
\* the result list after one more file, or the exception that leaves the loop
DocBatchBody(list, file_path, flags, docOut, ocrOut) ==
    LET r == process_document(file_path, flags.extract_structure,
                              flags.extract_tables, flags.ocr_images,
                              docOut, ocrOut)
    IN  IF Raised(r) THEN r ELSE Return(Append(list, r.value))

\* the loop body of GutenOCREngine.batch_process (lines 224-231)
EngineBatchBody(list, image_path, task_type, output_format, ocrOut) ==
    LET r == process_image(image_path, task_type, output_format, NoneStr, ocrOut)
    IN  IF Raised(r) THEN r ELSE Return(Append(list, r.value))

\* the (input_dir, output_dir) pairs batch_process is called with: the
\* defaults, and another pair
BatchDirectories ==
    { << InputDir, OutputDir >>, << OtherInputDir, OtherOutputDir >> }

\* DoclingGutenOCRProcessor.batch_process, lines 257-264: the directories of
\* the file processor are overwritten with the arguments, then discovery.
\* extract_tables keeps its default: no batch outcome holds a table.
DocBatchBegin(d, es, oi, extOrder, scanOrder) ==
    /\ input_dir' = d[1]
    /\ output_dir' = d[2]
    /\ args' = [input_dir |-> d[1], output_dir |-> d[2],
                extract_structure |-> es, extract_tables |-> TRUE,
                ocr_images |-> oi]
    /\ files' = discover_images(d[1], TRUE, extOrder, scanOrder)
    /\ pc' = "doc_batch"
    /\ idx' = 0
    /\ results' = << >>
    /\ calls' = << >>

DocBatchStart ==
    /\ pc = "idle" /\ op = "none"
    /\ \E d \in BatchDirectories, es \in BOOLEAN, oi \in BOOLEAN :
        \E extOrder \in Orders(MatchingExtensions(d[1])),
           scanOrder \in Orders(dirEntries) :
            DocBatchBegin(d, es, oi, extOrder, scanOrder)
    /\ UNCHANGED << op, ret, environment >>

\* one iteration of the loop of lines 265-273
DocBatchStep ==
    /\ pc = "doc_batch" /\ idx < Len(files)
    /\ \E d \in BatchDoclingOutcomes, o \in BatchOcrOutcomes :
        LET r == DocBatchBody(results, files[idx + 1], args, d, o)
        IN  /\ calls' = calls \o DocumentCalls(files[idx + 1],
                                   args.extract_structure, args.extract_tables,
                                   args.ocr_images, d, o)
            /\ IF Raised(r)
               THEN /\ pc' = "idle"
                    /\ op' = "batch_process"
                    /\ ret' = r
                    /\ UNCHANGED << idx, results >>
               ELSE /\ results' = r.value
                    /\ idx' = idx + 1
                    /\ UNCHANGED << pc, op, ret >>
    /\ UNCHANGED << args, files, environment, directories >>

\* lines 275-284: the aggregate JSON is written and the list returned; an
\* open() or json.dump that fails raises out of batch_process
DocBatchFinish ==
    /\ pc = "doc_batch" /\ idx = Len(files)
    /\ \E writeOk \in BOOLEAN :
        /\ calls' = Append(calls, [stage |-> "write",
                                   file |-> "combined_results_<timestamp>.json",
                                   outcome |-> [ok |-> writeOk]])
        /\ ret' = IF writeOk THEN Return(results)
                  ELSE Raise("OSError: cannot write the results file")
    /\ pc' = "idle"
    /\ op' = "batch_process"
    /\ UNCHANGED << args, environment, directories, batch >>

\* GutenOCREngine.batch_process, line 223
EngineBatchStart ==
    /\ pc = "idle" /\ op = "none"
    /\ \E list \in ImageLists, task \in BatchTasks :
        /\ args' = [image_paths |-> list, task_type |-> task[1],
                    output_format |-> task[2]]
        /\ files' = list
    /\ pc' = "engine_batch"
    /\ idx' = 0
    /\ results' = << >>
    /\ calls' = << >>
    /\ UNCHANGED << op, ret, environment, directories >>

\* one iteration of the loop of lines 224-231
EngineBatchStep ==
    /\ pc = "engine_batch" /\ idx < Len(files)
    /\ \E o \in BatchOcrOutcomes :
        LET r == EngineBatchBody(results, files[idx + 1], args.task_type,
                                 args.output_format, o)
        IN  /\ calls' = Append(calls, [stage |-> "ocr", file |-> files[idx + 1],
                                       outcome |-> o])
            /\ IF Raised(r)
               THEN /\ pc' = "idle"
                    /\ op' = "engine.batch_process"
                    /\ ret' = r
                    /\ UNCHANGED << idx, results >>
               ELSE /\ results' = r.value
                    /\ idx' = idx + 1
                    /\ UNCHANGED << pc, op, ret >>
    /\ UNCHANGED << args, files, environment, directories >>

\* line 232: return results
EngineBatchFinish ==
    /\ pc = "engine_batch" /\ idx = Len(files)
    /\ ret' = Return(results)
    /\ pc' = "idle"
    /\ op' = "engine.batch_process"
    /\ UNCHANGED << args, calls, environment, directories, batch >>

\* a call of DoclingGutenOCRProcessor.get_capabilities
GetCapabilities ==
    /\ pc = "idle" /\ op = "none"
    /\ op' = "get_capabilities"
    /\ args' = None
    /\ ret' = Return(get_capabilities(use_docling, processor.gutenocr,
                                      cuda_available, 1))
    /\ calls' = << >>
    /\ UNCHANGED << pc, environment, directories, batch >>

InitBatch ==
    /\ InitFileSystem /\ InitDirectories /\ InitEngine
    /\ InitProcessor /\ InitCalls

NextBatch ==
    \/ DiscoverImages
    \/ DocBatchStart \/ DocBatchStep \/ DocBatchFinish
    \/ EngineBatchStart \/ EngineBatchStep \/ EngineBatchFinish
    \/ GetCapabilities
    \/ NextCall

SpecBatch == InitBatch /\ [][NextBatch]_vars

-----------------------------------------------------------------------------
(* FileProcessor: statistics and the writers *)

\* largest length of a result list handed to FileProcessor
MaxResults == 2

\* len(text): the number of characters of a text
RECURSIVE CharCount(_)
CharCount(text) ==
    IF text = << >> THEN 0 ELSE Len(Head(text)) + CharCount(Tail(text))

Digit(d) == << "0", "1", "2", "3", "4", "5", "6", "7", "8", "9" >>[d + 1]

\* str(n) of a natural number, as characters
RECURSIVE IntStr(_)
IntStr(n) ==
    IF n < 10 THEN << Digit(n) >>
    ELSE IntStr(n \div 10) \o << Digit(n % 10) >>

\* the integer nearest to num / den, ties to the even one
RoundHalfEven(num, den) ==
    LET q == num \div den
        r == num % den
    IN  IF 2 * r < den THEN q
        ELSE IF 2 * r > den THEN q + 1
        ELSE IF q % 2 = 0 THEN q ELSE q + 1

\* f"{x:.2f}" for x = num / den
Fixed2(num, den) ==
    LET h == RoundHalfEven(100 * num, den)
    IN  IntStr(h \div 100) \o << ".", Digit((h % 100) \div 10), Digit(h % 10) >>

\* a / b: the quotient, or ZeroDivisionError
Divide(a, b) ==
    IF b = 0 THEN Raise("ZeroDivisionError: division by zero")
    ELSE Return([num |-> a, den |-> b])

\* a variant that takes every result as successful
SuccessfulEveryResult(list) == list

\* the results with a truthy 'success'
Successful(list) == SelectSeq(list, LAMBDA r : Get(r, "success", FALSE))

\* sum(len(r.get('text', '')) for r in list)
RECURSIVE TotalChars(_)
TotalChars(list) ==
    IF list = << >> THEN 0
    ELSE CharCount(Get(Head(list), "text", << >>)) + TotalChars(Tail(list))

\* a variant that divides by the number of successful results without
\* testing it
get_statistics_unguarded(list) ==
    LET total == Len(list)
        successful == Len(Successful(list))
        total_chars == TotalChars(Successful(list))
        avg_chars == Divide(total_chars, successful)
        rate == Divide(successful * 100, total)
    IN  IF Raised(avg_chars) THEN avg_chars
        ELSE IF Raised(rate) THEN rate
        ELSE Return([ total_images |-> total,
                      successful |-> successful,
                      failed |-> total - successful,
                      success_rate |->
                          Fixed2(rate.value.num, rate.value.den) \o << "%" >>,
                      total_characters |-> total_chars,
                      average_characters_per_image |->
                          Fixed2(avg_chars.value.num, avg_chars.value.den),
                      timestamp |-> "<now>" ])

\* FileProcessor.get_statistics
get_statistics(list) ==
    LET total == Len(list)
        successful == Len(Successful(list))
        total_chars == TotalChars(Successful(list))
        avg_chars == IF successful > 0 THEN Divide(total_chars, successful)
                     ELSE Return([num |-> 0, den |-> 1])
        rate == IF total > 0 THEN Divide(successful * 100, total)
                ELSE Return(None)
    IN  IF Raised(avg_chars) THEN avg_chars
        ELSE IF Raised(rate) THEN rate
        ELSE Return([ total_images |-> total,
                      successful |-> successful,
                      failed |-> total - successful,
                      success_rate |->
                          IF total > 0
                          THEN Fixed2(rate.value.num, rate.value.den) \o << "%" >>
                          ELSE << "0", "%" >>,
                      total_characters |-> total_chars,
                      average_characters_per_image |->
                          Fixed2(avg_chars.value.num, avg_chars.value.den),
                      timestamp |-> "<now>" ])

\* the image paths of the results: two images with the same name in
\* different directories, and a third one
ResultPaths ==
    { PathStr(File(<< << "a", ".", "p", "n", "g" >> >>)),
      PathStr(File(<< << "s", "u", "b" >>, << "a", ".", "p", "n", "g" >> >>)),
      PathStr(File(<< << "B", ".", "P", "D", "F" >> >>)) }

\* what the engine did on the image of a result
ResultOutcomes ==
    { OcrOk(<< "ocr-text" >>), OcrOk(<< "two", NL, "lines" >>),
      OcrFail("open", "RuntimeError: failed") }

\* the dicts GutenOCREngine.process_image returns for these
ResultDicts ==
    { process_image(p, "reading", "TEXT", NoneStr, o).value :
        p \in ResultPaths, o \in ResultOutcomes }

\* the result lists handed to the file processor
ResultLists == UNION { [1..n -> ResultDicts] : n \in 0..MaxResults }

\* the keys of the dicts process_image builds, in the order in which the
\* dict literals list them (lines 160-167 and 171-175)
FieldOrder ==
    << "success", "image_path", "task_type", "output_format", "text",
       "prompt", "error" >>

\* list(d.keys()): the keys in insertion order
Keys(d) == SelectSeq(FieldOrder, LAMBDA k : k \in DOMAIN d)

\* the last index of the character c in the string s, 0 if there is none
LastIndex(s, c) ==
    IF \E i \in 1..Len(s) : s[i] = c
    THEN CHOOSE i \in 1..Len(s) : s[i] = c /\ \A j \in (i + 1)..Len(s) : s[j] # c
    ELSE 0

\* Path(p).name: the last component
BaseName(p) == SubSeq(p, LastIndex(p, "/") + 1, Len(p))

\* Path(p).stem: the name without its last suffix
Stem(p) ==
    LET name == BaseName(p)
        i == LastIndex(name, ".")
    IN  IF 1 < i /\ i < Len(name) THEN SubSeq(name, 1, i - 1) ELSE name

\* the formats handed to the writers: those they know and one they do not
SaveFormats == { "json", "txt", "csv", "xml" }

\* output_dir / name
OutputPath(dir, name) == dir \o << "/" >> \o name

\* one open(path, 'w') ... write: the file that exists afterwards
Written(path, content) == [stage |-> "write", file |-> path, content |-> content]

\* what a writer did: the value it returns or the exception it raises, and
\* the files it wrote before that
Outcome(value, writes) == [ret |-> value, writes |-> writes]

OSError == Raise("PermissionError: [Errno 13] Permission denied")

\* the exception raised by reading output_path when no branch assigned it
UnboundLocalError ==
    Raise("UnboundLocalError: local variable 'output_path' referenced before assignment")

\* the block save_results writes for one result in the txt format
\* (lines 97-104)
TxtBlock(r) ==
    [ file |-> Get(r, "image_path", "Unknown"),
      status |-> IF Get(r, "success", FALSE) THEN "Success" ELSE "Failed",
      body |-> IF Get(r, "success", FALSE)
               THEN << "Text:", NL >> \o Get(r, "text", << >>)
               ELSE << "Error: ", Get(r, "error", "Unknown error") >> ]

\* str(value) of a field as csv.writer writes it
CsvField(key, value) ==
    IF key = "success" THEN (IF value THEN "True" ELSE "False") ELSE value

\* DictWriter._dict_to_list: the row of a dict under the header, with ''
\* for a missing key; a key outside the header is a ValueError
CsvRow(header, r) ==
    IF \E k \in DOMAIN r : k \notin Range(header)
    THEN Raise("ValueError: dict contains fields not in fieldnames")
    ELSE Return([j \in 1..Len(header) |->
                    IF header[j] \in DOMAIN r
                    THEN CsvField(header[j], r[header[j]]) ELSE ""])

\* writer.writerows(results): the rows written up to the first dict that
\* cannot be written
RECURSIVE CsvRows(_, _)
CsvRows(header, list) ==
    IF list = << >> THEN Outcome(Return(None), << >>)
    ELSE LET row == CsvRow(header, Head(list))
         IN  IF Raised(row) THEN Outcome(row, << >>)
             ELSE LET rest == CsvRows(header, Tail(list))
                  IN  Outcome(rest.ret, << row.value >> \o rest.writes)

\* a variant that lists the first result's keys in reverse order
CsvContentReversedHeader(list) ==
    IF list = << >> THEN Outcome(Return(None), << >>)
    ELSE LET keys == Keys(list[1])
             header == [j \in 1..Len(keys) |-> keys[Len(keys) + 1 - j]]
             rows == CsvRows(header, list)
         IN  Outcome(rows.ret, << header >> \o rows.writes)

\* lines 110-113: the lines of the csv file
CsvContent(list) ==
    IF list = << >> THEN Outcome(Return(None), << >>)
    ELSE LET header == Keys(list[1])
             rows == CsvRows(header, list)
         IN  Outcome(rows.ret, << header >> \o rows.writes)

\* FileProcessor.save_results(results, format, timestamp) of a file
\* processor whose output_dir is dir; writable tells whether open() succeeds
save_results(dir, list, format, timestamp, writable) ==
    LET filename == IF timestamp THEN << "ocr_results_", "<timestamp>" >>
                    ELSE << "ocr_results" >>
        path == OutputPath(dir, filename \o << ".", format >>)
    IN  IF format \notin { "json", "txt", "csv" }
        THEN Outcome(UnboundLocalError, << >>)
        ELSE IF ~writable THEN Outcome(OSError, << >>)
        ELSE IF format = "json"
        THEN Outcome(Return(path), << Written(path, [json |-> list]) >>)
        ELSE IF format = "txt"
        THEN Outcome(Return(path),
                     << Written(path, [i \in 1..Len(list) |-> TxtBlock(list[i])]) >>)
        ELSE LET csv == CsvContent(list)
             IN  Outcome(IF Raised(csv.ret) THEN csv.ret ELSE Return(path),
                         << Written(path, csv.writes) >>)

\* the file save_individual_results writes for the result r at index i
\* (0-based) of the list: lines 138-157
IndividualFile(dir, r, i, format) ==
    LET image_path == Get(r, "image_path", << "image_", IntStr(i) >>)
        base_name == Stem(image_path)
        path == OutputPath(dir, base_name \o << "_", "<timestamp>", ".", format >>)
    IN  IF format = "txt"
        THEN Written(path,
                 [ source |-> Get(r, "image_path", "Unknown"),
                   task |-> Get(r, "task_type", "Unknown"),
                   format |-> Get(r, "output_format", "Unknown"),
                   body |-> IF Get(r, "success", FALSE)
                            THEN Get(r, "text", << >>)
                            ELSE << "Error: ", Get(r, "error", "Unknown error") >> ])
        ELSE Written(path, [json |-> r])

\* FileProcessor.save_individual_results(results, format): the loop of
\* lines 136-160 from index i on
RECURSIVE save_individual_results(_, _, _, _, _)
save_individual_results(dir, list, format, writable, i) ==
    IF i >= Len(list) THEN Outcome(Return(<< >>), << >>)
    ELSE IF format \notin { "txt", "json" } THEN Outcome(UnboundLocalError, << >>)
    ELSE IF ~writable THEN Outcome(OSError, << >>)
    ELSE LET w == IndividualFile(dir, list[i + 1], i, format)
             rest == save_individual_results(dir, list, format, writable, i + 1)
         IN  Outcome(IF Raised(rest.ret) THEN rest.ret
                     ELSE Return(<< w.file >> \o rest.ret.value),
                     << w >> \o rest.writes)

\* the entry create_summary_report writes for one result (lines 223-228)
ReportEntry(r, n) ==
    [ number |-> IntStr(n),
      name |-> BaseName(Get(r, "image_path", << "U", "n", "k", "n", "o", "w", "n" >>)),
      status |-> IF Get(r, "success", FALSE) THEN "Success" ELSE "Failed",
      error |-> IF Get(r, "success", FALSE) THEN << >>
                ELSE << "   Error: ", Get(r, "error", "Unknown") >> ]

\* FileProcessor.create_summary_report(results, statistics)
create_summary_report(dir, list, statistics, writable) ==
    LET path == OutputPath(dir, << "summary_report_", "<timestamp>", ".txt" >>)
    IN  IF ~writable THEN Outcome(OSError, << >>)
        ELSE Outcome(Return(path),
                 << Written(path,
                        [ title |-> "GutenOCR Processing Summary Report",
                          statistics |-> statistics,
                          details |-> [i \in 1..Len(list) |->
                                          ReportEntry(list[i], i)] ]) >>)

\* a file processor with the default directories, and no Docling
InitFiles ==
    /\ InitEmptyDirectory /\ InitDirectories /\ InitEngine /\ InitCalls
    /\ DOCLING_AVAILABLE = FALSE
    /\ use_docling = ProcessorFields(FALSE, TRUE, TRUE).use_docling
    /\ docling_converter = ProcessorFields(FALSE, TRUE, TRUE).docling_converter

\* a call of FileProcessor.get_statistics
GetStatistics ==
    /\ pc = "idle" /\ op = "none"
    /\ \E list \in ResultLists :
        /\ op' = "get_statistics"
        /\ args' = [results |-> list]
        /\ ret' = get_statistics(list)
    /\ calls' = << >>
    /\ UNCHANGED << pc, environment, directories, batch >>

\* a call of FileProcessor.save_results
SaveResults ==
    /\ pc = "idle" /\ op = "none"
    /\ \E list \in ResultLists, format \in SaveFormats, timestamp \in BOOLEAN,
          writable \in BOOLEAN :
        LET out == save_results(output_dir, list, format, timestamp, writable)
        IN  /\ op' = "save_results"
            /\ args' = [results |-> list, format |-> format,
                        timestamp |-> timestamp]
            /\ ret' = out.ret
            /\ calls' = out.writes
    /\ UNCHANGED << pc, environment, directories, batch >>

\* a call of FileProcessor.save_individual_results
SaveIndividualResults ==
    /\ pc = "idle" /\ op = "none"
    /\ \E list \in ResultLists, format \in SaveFormats, writable \in BOOLEAN :
        LET out == save_individual_results(output_dir, list, format, writable, 0)
        IN  /\ op' = "save_individual_results"
            /\ args' = [results |-> list, format |-> format]
            /\ ret' = out.ret
            /\ calls' = out.writes
    /\ UNCHANGED << pc, environment, directories, batch >>

\* a call of FileProcessor.create_summary_report with the statistics of the
\* list
CreateSummaryReport ==
    /\ pc = "idle" /\ op = "none"
    /\ \E list \in ResultLists, writable \in BOOLEAN :
        /\ ~Raised(get_statistics(list))
        /\ LET out == create_summary_report(output_dir, list,
                                            get_statistics(list).value, writable)
           IN  /\ op' = "create_summary_report"
               /\ args' = [results |-> list]
               /\ ret' = out.ret
               /\ calls' = out.writes
    /\ UNCHANGED << pc, environment, directories, batch >>

NextFiles ==
    \/ GetStatistics \/ SaveResults \/ SaveIndividualResults
    \/ CreateSummaryReport \/ NextCall

SpecFiles == InitFiles /\ [][NextFiles]_vars

-----------------------------------------------------------------------------
(* The UI handlers: GutenOCRUI (gradio_ui.py) and DoclingGutenOCRUI          *)
(* (docling_gradio_ui.py).  A message is a text; the symbols that open the  *)
(* messages are the atoms below.                                            *)

\* U+2713 and U+2717, the marks of GutenOCRUI
CheckMark == "<check mark>"

CrossMark == "<ballot x>"

\* U+2705 and U+274C, the marks of DoclingGutenOCRUI
DoneMark == "<white heavy check mark>"

FailMark == "<cross mark>"

\* the choices of the model radio of GutenOCRUI, and model_map
ModelMap ==
    ("GutenOCR-3B (Faster)" :> "rootsautomation/GutenOCR-3B")
    @@ ("GutenOCR-7B (More Accurate)" :> "rootsautomation/GutenOCR-7B")

\* the model choices a handler receives: those of the two radios
ModelChoices == { "GutenOCR-3B (Faster)", "GutenOCR-7B (More Accurate)" }

DoclingModelChoices == { "GutenOCR-3B", "GutenOCR-7B" }

\* task_type.lower().replace(" ", "_") on the choices of the task dropdown
TaskKey ==
    ("Reading" :> "reading") @@ ("Detection" :> "detection")
    @@ ("Localized Reading" :> "localized_reading")
    @@ ("Conditional Detection" :> "conditional_detection")

\* the task a handler receives: a choice of the dropdown, or None
UiTasks == { "Reading", "Conditional Detection", NoneStr }

\* the output formats a handler receives
UiFormats == { "TEXT", "BOX" }

\* save_format.lower() on the choices of the save format radio
SaveFormatKey == ("JSON" :> "json") @@ ("TXT" :> "txt") @@ ("CSV" :> "csv")

UiSaveFormats == { "JSON", "TXT", "CSV" }

\* task_type.lower() ... : the key, or the AttributeError of None.lower()
TaskOf(task_type) ==
    IF task_type = NoneStr
    THEN Raise("AttributeError: 'NoneType' object has no attribute 'lower'")
    ELSE Return(TaskKey[task_type])

\* what a handler did: the value it returns or the exception that escapes
\* it, the files it wrote, and the object it leaves in its field
Handled(value, writes, field) == [ret |-> value, writes |-> writes, field |-> field]

\* the fields of GutenOCRUI that initialize_engine assigns
UiFields(e, model_choice, use_cpu) ==
    [engine |-> e, current_model |-> model_choice, use_cpu |-> use_cpu]

\* a variant that assigns current_model and use_cpu before it constructs
\* the engine
initialize_engine_choice_first(old, model_choice, use_cpu, cuda, loadOk, count) ==
    LET model_id == Get(ModelMap, model_choice, "rootsautomation/GutenOCR-3B")
        e == GutenOCREngine(model_id, "auto", use_cpu, NoneStr, cuda, loadOk)
    IN  IF Raised(e)
        THEN Handled(e, << >>, UiFields(old.engine, model_choice, use_cpu))
        ELSE Handled(Return(<< CheckMark, " Model loaded successfully!", NL, NL,
                               "Device Info:", NL,
                               get_device_info(e.value, cuda, count) >>),
                     << >>, UiFields(e.value, model_choice, use_cpu))

\* the try block of GutenOCRUI.initialize_engine (lines 35-51): old holds
\* the fields of the UI before the call, field those after it
initialize_engine_try(old, model_choice, use_cpu, cuda, loadOk, count) ==
    LET model_id == Get(ModelMap, model_choice, "rootsautomation/GutenOCR-3B")
        e == GutenOCREngine(model_id, "auto", use_cpu, NoneStr, cuda, loadOk)
    IN  IF Raised(e) THEN Handled(e, << >>, old)
        ELSE Handled(Return(<< CheckMark, " Model loaded successfully!", NL, NL,
                               "Device Info:", NL,
                               get_device_info(e.value, cuda, count) >>),
                     << >>, UiFields(e.value, model_choice, use_cpu))

\* GutenOCRUI.initialize_engine
initialize_engine(old, model_choice, use_cpu, cuda, loadOk, count) ==
    LET r == initialize_engine_try(old, model_choice, use_cpu, cuda, loadOk, count)
    IN  IF Raised(r.ret)
        THEN Handled(Return(<< CrossMark, " Error loading model: ", r.ret.msg >>),
                     r.writes, r.field)
        ELSE r

\* the try block of GutenOCRUI.process_single_image (lines 75-87)
process_single_image_try(image_path, task_type, output_format, outcome) ==
    LET task == TaskOf(task_type)
    IN  IF Raised(task) THEN task
        ELSE LET r == process_image(image_path, task.value, output_format,
                                    NoneStr, outcome)
             IN  IF Raised(r) THEN r
                 ELSE IF Get(r.value, "success", FALSE)
                 THEN Return(<< Get(r.value, "text", << >>),
                                << CheckMark, " Processing successful", NL, NL,
                                   "Task: ", task_type, NL,
                                   "Format: ", output_format, NL, NL,
                                   "Characters: " >>
                                \o IntStr(CharCount(Get(r.value, "text", << >>))) >>)
                 ELSE Return(<< << "Error: ", Get(r.value, "error", "Unknown error") >>,
                                << CrossMark, " Processing failed" >> >>)

\* a variant that does not test the engine
process_single_image_unchecked(e, image_path, task_type, output_format, outcome) ==
    LET r == process_single_image_try(image_path, task_type,
                                      output_format, outcome)
    IN  IF Raised(r)
        THEN Return(<< << "Error: ", r.msg >>,
                       << CrossMark, " Processing failed" >> >>)
        ELSE r

\* GutenOCRUI.process_single_image on the engine e
process_single_image(e, image_path, task_type, output_format, outcome) ==
    IF e = None
    THEN Return(<< << "Error: Please initialize the model first!" >>, << >> >>)
    ELSE LET r == process_single_image_try(image_path, task_type,
                                           output_format, outcome)
         IN  IF Raised(r)
             THEN Return(<< << "Error: ", r.msg >>,
                            << CrossMark, " Processing failed" >> >>)
             ELSE r

\* lines 124-154 of GutenOCRUI.process_batch: the results are saved, the
\* statistics and the report made, the individual files saved, the summary
\* built
process_batch_save(dir, list, save_format, writable) ==
    LET saved == save_results(dir, list, SaveFormatKey[save_format], TRUE, writable)
        stats == get_statistics(list)
    IN  IF Raised(saved.ret) THEN saved
        ELSE IF Raised(stats) THEN Outcome(stats, saved.writes)
        ELSE LET report == create_summary_report(dir, list, stats.value, writable)
                 single == save_individual_results(dir, list, "txt", writable, 0)
             IN  IF Raised(report.ret)
                 THEN Outcome(report.ret, saved.writes \o report.writes)
                 ELSE IF Raised(single.ret)
                 THEN Outcome(single.ret,
                              saved.writes \o report.writes \o single.writes)
                 ELSE Outcome(
                        Return(<< CheckMark, " Batch processing complete!", NL,
                                  [ processed |-> stats.value.total_images,
                                    success |-> stats.value.successful,
                                    rate |-> stats.value.success_rate,
                                    failed |-> stats.value.failed,
                                    combined |-> saved.ret.value,
                                    report |-> report.ret.value,
                                    individual |-> Len(single.ret.value),
                                    characters |-> stats.value.total_characters,
                                    average |->
                                      stats.value.average_characters_per_image ] >>),
                        saved.writes \o report.writes \o single.writes)

\* a variant without the except clause: the exception reaches the widget
\* framework
process_batch_no_except(out) == out

\* the except clause of GutenOCRUI.process_batch (lines 156-158)
process_batch_except(out) ==
    IF Raised(out.ret)
    THEN Outcome(Return(<< "Error: ", out.ret.msg >>), out.writes)
    ELSE out

\* the loop body of GutenOCRUI.process_batch (lines 115-122)
UiBatchBody(list, image_path, task_type, output_format, ocrOut) ==
    LET task == TaskOf(task_type)
    IN  IF Raised(task) THEN task
        ELSE LET r == process_image(image_path, task.value, output_format,
                                    NoneStr, ocrOut)
             IN  IF Raised(r) THEN r ELSE Return(Append(list, r.value))

\* the try block of DoclingGutenOCRUI.initialize_processor (lines 41-67):
\* field is the processor it leaves in self.processor, with the fields
\* __init__ gave it
initialize_processor_try(old, model_choice, use_cpu, requested, available, converterOk, cuda, loadOk, count) ==
    LET model_id == IF model_choice = "GutenOCR-3B"
                    THEN "rootsautomation/GutenOCR-3B"
                    ELSE "rootsautomation/GutenOCR-7B"
        e == GutenOCREngine(model_id, "auto", use_cpu, NoneStr, cuda, loadOk)
        f == ProcessorFields(available, requested, converterOk)
    IN  IF Raised(e) THEN Handled(e, << >>, old)
        ELSE LET capabilities == get_capabilities(f.use_docling, e.value, cuda, count)
             IN  Handled(
                   Return(<< DoneMark, " Processor initialized successfully!", NL,
                             [ model |-> model_choice,
                               device |-> IF use_cpu THEN "CPU" ELSE "GPU",
                               docling |-> IF capabilities.docling_available
                                           THEN "Enabled" ELSE "Disabled",
                               formats |-> capabilities.supported_formats,
                               device_info |-> capabilities.device_info ] >>),
                   << >>,
                   [ gutenocr |-> e.value,
                     use_docling |-> f.use_docling,
                     docling_converter |-> f.docling_converter ])

\* DoclingGutenOCRUI.initialize_processor
initialize_processor(old, model_choice, use_cpu, requested, available, converterOk, cuda, loadOk, count) ==
    LET r == initialize_processor_try(old, model_choice, use_cpu, requested,
                                      available, converterOk, cuda, loadOk, count)
    IN  IF Raised(r.ret)
        THEN Handled(Return(<< FailMark, " Error: ", r.ret.msg >>), r.writes, r.field)
        ELSE r

\* DoclingGutenOCRUI._format_result
_format_result(result) ==
    << "=== PROCESSING METADATA ===", NL, NL,
       "File: " >> \o BaseName(result.file_path)
    \o << NL, "Timestamp: ", result.timestamp, NL,
          "Mode: ", Get(result.metadata, "processing_mode", "unknown"), NL, NL >>
    \o ( IF TruthySeq(Get(result, "combined_text", << >>))
         THEN << "=== EXTRACTED CONTENT ===", NL, NL >> \o result.combined_text
         ELSE << >> )

\* the try block of DoclingGutenOCRUI.process_single_document
\* (lines 88-121)
process_single_document_try(dir, file, es, et, oi, docOut, ocrOut, writable) ==
    LET r == process_document(file.name, es, et, oi, docOut, ocrOut)
        output_file == OutputPath(dir, << "docling_result_", "<timestamp>", ".json" >>)
    IN  IF Raised(r) THEN Outcome(r, << >>)
        ELSE IF Get(r.value, "success", FALSE)
        THEN IF ~writable THEN Outcome(OSError, << >>)
             ELSE Outcome(
                    Return(<< << DoneMark, " Processing complete!", NL, NL,
                                 "**File:** " >> \o BaseName(file.name)
                              \o << NL, "**Processing mode:** ",
                                    Get(r.value.metadata, "processing_mode", "unknown"),
                                    NL, "**Output saved to:** " >> \o output_file,
                              _format_result(r.value),
                              output_file >>),
                    << Written(output_file, [json |-> r.value]) >>)
        ELSE Outcome(Return(<< << FailMark, " Processing failed: ",
                                  Get(r.value, "error", "Unknown error") >>,
                               None, None >>),
                     << >>)

\* DoclingGutenOCRUI.process_single_document; file is the upload, or None
process_single_document(proc, dir, file, es, et, oi, docOut, ocrOut, writable) ==
    IF proc = None
    THEN Outcome(Return(<< << FailMark, " Please initialize the processor first!" >>,
                           None, None >>), << >>)
    ELSE IF file = None
    THEN Outcome(Return(<< << FailMark, " Please upload a file!" >>, None, None >>),
                 << >>)
    ELSE LET r == process_single_document_try(dir, file, es, et, oi,
                                              docOut, ocrOut, writable)
         IN  IF Raised(r.ret)
             THEN Outcome(Return(<< << FailMark, " Error: ", r.ret.msg >>, None, None >>),
                          r.writes)
             ELSE r

\* lines 152-174 of DoclingGutenOCRUI.batch_process_documents: the summary
\* of the list batch_process returned
BatchSummary(dir, list) ==
    << DoneMark, " Batch processing complete!", NL,
       [ total |-> Len(list),
         successful |-> Len(Successful(list)),
         failed |-> Len(list) - Len(Successful(list)),
         saved_to |-> dir,
         files |-> [i \in 1..Len(list) |->
                      << IF Get(list[i], "success", FALSE) THEN DoneMark ELSE FailMark,
                         BaseName(list[i].file_path),
                         Get(Get(list[i], "metadata", << >>),
                             "processing_mode", "unknown") >>] ] >>

\* the try block of DoclingGutenOCRUI.batch_process_documents, given what
\* batch_process returned or raised
batch_process_documents_try(dir, returned) ==
    IF Raised(returned) THEN returned
    ELSE Return(BatchSummary(dir, returned.value))

\* DoclingGutenOCRUI.batch_process_documents, from the return of
\* batch_process on
batch_process_documents(dir, returned) ==
    LET r == batch_process_documents_try(dir, returned)
    IN  IF Raised(r) THEN Return(<< FailMark, " Error: ", r.msg >>) ELSE r

\* DoclingGutenOCRUI.get_capabilities_info
get_capabilities_info(proc, docling, cuda, count) ==
    IF proc = None THEN Return(<< FailMark, " Processor not initialized" >>)
    ELSE Return(<< "**Processor Capabilities:**", NL,
                   get_capabilities(docling, proc.gutenocr, cuda, count) >>)

platform == << caseSensitive, dirEntries, cuda_available, DOCLING_AVAILABLE >>

docling == << use_docling, docling_converter >>

\* the files of the input directory when the UIs run
UiFileUniverse ==
    { File(<< << "a", ".", "p", "n", "g" >> >>),
      File(<< << "B", ".", "P", "D", "F" >> >>),
      File(<< << "d", ".", "t", "x", "t" >> >>) }

\* the UIs after construction: no engine and no processor yet
InitUI ==
    /\ caseSensitive = TRUE
    /\ dirEntries \in { S \in SUBSET UiFileUniverse : Cardinality(S) <= MaxFiles }
    /\ cuda_available = FALSE
    /\ DOCLING_AVAILABLE \in BOOLEAN
    /\ engine = None
    /\ current_model = NoneStr
    /\ self_use_cpu = FALSE
    /\ processor = None
    /\ handler = "none"
    /\ use_docling = FALSE
    /\ docling_converter = NoneStr
    /\ InitDirectories /\ InitCalls

\* GutenOCRUI.initialize_engine
UiInitializeEngine ==
    /\ pc = "idle" /\ op = "none"
    /\ \E mc \in ModelChoices, cpu \in BOOLEAN, loadOk \in BOOLEAN :
        LET out == initialize_engine(UiFields(engine, current_model, self_use_cpu),
                                     mc, cpu, cuda_available, loadOk, 1)
        IN  /\ op' = "initialize_engine"
            /\ args' = [model_choice |-> mc, use_cpu |-> cpu]
            /\ ret' = out.ret
            /\ engine' = out.field.engine
            /\ current_model' = out.field.current_model
            /\ self_use_cpu' = out.field.use_cpu
    /\ calls' = << >>
    /\ UNCHANGED << pc, platform, processor, handler, docling, directories, batch >>

\* GutenOCRUI.process_single_image
UiProcessSingleImage ==
    /\ pc = "idle" /\ op = "none"
    /\ \E p \in SamplePaths, t \in UiTasks, f \in UiFormats,
          o \in BatchOcrOutcomes :
        /\ op' = "process_single_image"
        /\ args' = [image_path |-> p, task_type |-> t, output_format |-> f]
        /\ ret' = process_single_image(engine, p, t, f, o)
        /\ calls' = IF engine = None \/ t = NoneStr THEN << >>
                    ELSE << [stage |-> "ocr", file |-> p, outcome |-> o] >>
    /\ UNCHANGED << pc, environment, directories, batch >>

\* GutenOCRUI.process_batch, lines 101-113: the engine is checked and the
\* images are discovered
UiProcessBatchStart ==
    /\ pc = "idle" /\ op = "none"
    /\ \E t \in UiTasks, f \in UiFormats, sf \in UiSaveFormats,
          extOrder \in Orders(MatchingExtensions(input_dir)),
          scanOrder \in Orders(dirEntries) :
        LET found == discover_images(input_dir, TRUE, extOrder, scanOrder)
        IN  /\ args' = [task_type |-> t, output_format |-> f, save_format |-> sf]
            /\ IF engine = None
               THEN /\ ret' = Return(<< "Error: Please initialize the model first!" >>)
                    /\ op' = "process_batch"
                    /\ UNCHANGED << pc, files >>
               ELSE IF found = << >>
               THEN /\ ret' = Return(<< "No images found in ./input directory" >>)
                    /\ op' = "process_batch"
                    /\ UNCHANGED << pc, files >>
               ELSE /\ pc' = "ui_batch"
                    /\ files' = found
                    /\ UNCHANGED << op, ret >>
    /\ idx' = 0
    /\ results' = << >>
    /\ calls' = << >>
    /\ UNCHANGED << environment, directories >>

\* one iteration of the loop of lines 114-122
UiProcessBatchStep ==
    /\ pc = "ui_batch" /\ idx < Len(files)
    /\ \E o \in BatchOcrOutcomes :
        LET r == UiBatchBody(results, files[idx + 1], args.task_type,
                             args.output_format, o)
        IN  IF Raised(r)
            THEN /\ pc' = "idle"
                 /\ op' = "process_batch"
                 /\ ret' = process_batch_except(Outcome(r, << >>)).ret
                 /\ UNCHANGED << idx, results, calls >>
            ELSE /\ results' = r.value
                 /\ idx' = idx + 1
                 /\ calls' = Append(calls, [stage |-> "ocr",
                                            file |-> files[idx + 1],
                                            outcome |-> o,
                                            engine |-> engine])
                 /\ UNCHANGED << pc, op, ret >>
    /\ UNCHANGED << args, files, environment, directories >>

\* lines 124-158: the results are saved and the summary is returned
UiProcessBatchFinish ==
    /\ pc = "ui_batch" /\ idx = Len(files)
    /\ \E writable \in BOOLEAN :
        LET out == process_batch_except(
                       process_batch_save(output_dir, results,
                                          args.save_format, writable))
        IN  /\ ret' = out.ret
            /\ calls' = calls \o out.writes
    /\ pc' = "idle"
    /\ op' = "process_batch"
    /\ UNCHANGED << args, environment, directories, batch >>

\* DoclingGutenOCRUI.initialize_processor
UiInitializeProcessor ==
    /\ pc = "idle" /\ op = "none"
    /\ \E mc \in DoclingModelChoices, cpu \in BOOLEAN, requested \in BOOLEAN,
          converterOk \in BOOLEAN, loadOk \in BOOLEAN :
        LET old == IF processor = None THEN None
                   ELSE [ gutenocr |-> processor.gutenocr,
                          use_docling |-> use_docling,
                          docling_converter |-> docling_converter ]
            out == initialize_processor(old, mc, cpu, requested,
                                        DOCLING_AVAILABLE, converterOk,
                                        cuda_available, loadOk, 1)
        IN  /\ op' = "initialize_processor"
            /\ args' = [model_choice |-> mc, use_cpu |-> cpu,
                        use_docling |-> requested]
            /\ ret' = out.ret
            /\ IF out.field = old
               THEN UNCHANGED << processor, docling, directories >>
               ELSE /\ processor' = [gutenocr |-> out.field.gutenocr]
                    /\ use_docling' = out.field.use_docling
                    /\ docling_converter' = out.field.docling_converter
                    /\ input_dir' = InputDir
                    /\ output_dir' = OutputDir
    /\ calls' = << >>
    /\ UNCHANGED << pc, platform, engine, selection, handler, batch >>

\* the uploads a handler receives: a file, or None
Uploads == { [name |-> p] : p \in SamplePaths } \cup { None }

\* DoclingGutenOCRUI.process_single_document
UiProcessSingleDocument ==
    /\ pc = "idle" /\ op = "none"
    /\ \E file \in Uploads, es \in BOOLEAN, et \in BOOLEAN, oi \in BOOLEAN,
          d \in BatchDoclingOutcomes, o \in BatchOcrOutcomes,
          writable \in BOOLEAN :
        LET out == process_single_document(processor, OutputDir, file, es, et,
                                           oi, d, o, writable)
        IN  /\ op' = "process_single_document"
            /\ args' = [file |-> file, extract_structure |-> es,
                        extract_tables |-> et, ocr_images |-> oi]
            /\ ret' = out.ret
            /\ calls' = ( IF processor = None \/ file = None THEN << >>
                          ELSE DocumentCalls(file.name, es, et, oi, d, o) )
                        \o out.writes
    /\ UNCHANGED << pc, environment, directories, batch >>

\* DoclingGutenOCRUI.batch_process_documents, lines 135-148: the processor
\* is checked and batch_process is called with the directories of the UI
UiBatchDocumentsStart ==
    /\ pc = "idle" /\ op = "none"
    /\ \E es \in BOOLEAN, oi \in BOOLEAN :
        IF processor = None
        THEN /\ op' = "batch_process_documents"
             /\ args' = [extract_structure |-> es, extract_tables |-> TRUE,
                         ocr_images |-> oi]
             /\ ret' = Return(<< FailMark, " Please initialize the processor first!" >>)
             /\ calls' = << >>
             /\ UNCHANGED << pc, handler, directories, batch >>
        ELSE /\ \E extOrder \in Orders(MatchingExtensions(InputDir)),
                  scanOrder \in Orders(dirEntries) :
                    DocBatchBegin(<< InputDir, OutputDir >>, es, oi,
                                  extOrder, scanOrder)
             /\ handler' = "batch_process_documents"
             /\ UNCHANGED << op, ret >>
    /\ UNCHANGED << platform, engine, selection, processor, docling >>

\* lines 150-178: batch_process has returned or raised
UiBatchDocumentsReturn ==
    /\ pc = "idle" /\ op = "batch_process"
    /\ handler = "batch_process_documents"
    /\ op' = "batch_process_documents"
    /\ ret' = batch_process_documents(OutputDir, ret)
    /\ handler' = "none"
    /\ UNCHANGED << pc, args, calls, platform, engine, selection, processor, docling,
                    directories, batch >>

\* DoclingGutenOCRUI.get_capabilities_info
UiGetCapabilitiesInfo ==
    /\ pc = "idle" /\ op = "none"
    /\ op' = "get_capabilities_info"
    /\ args' = None
    /\ ret' = get_capabilities_info(processor, use_docling, cuda_available, 1)
    /\ calls' = << >>
    /\ UNCHANGED << pc, environment, directories, batch >>

NextUI ==
    \/ UiInitializeEngine \/ UiProcessSingleImage
    \/ UiProcessBatchStart \/ UiProcessBatchStep \/ UiProcessBatchFinish
    \/ UiInitializeProcessor \/ UiProcessSingleDocument
    \/ UiBatchDocumentsStart \/ DocBatchStep \/ DocBatchFinish
    \/ UiBatchDocumentsReturn
    \/ UiGetCapabilitiesInfo
    \/ NextCall

SpecUI == InitUI /\ [][NextUI]_vars

\* GutenOCRUI.initialize_engine, requested from the browser while
\* process_batch is between two images: the handlers of different buttons
\* run in different worker threads of the widget framework, and no lock
\* guards self.engine.  The message goes to the request that asked for it.
InitializeEngineDuringBatch ==
    /\ pc = "ui_batch"
    /\ \E mc \in ModelChoices, cpu \in BOOLEAN, loadOk \in BOOLEAN :
        LET out == initialize_engine(UiFields(engine, current_model, self_use_cpu),
                                     mc, cpu, cuda_available, loadOk, 1)
        IN  /\ engine' = out.field.engine
            /\ current_model' = out.field.current_model
            /\ self_use_cpu' = out.field.use_cpu
    /\ UNCHANGED << pc, op, args, ret, calls, platform, processor, handler,
                    docling, directories, batch >>

\* GutenOCRUI with the requests of two buttons in flight
NextConcurrent ==
    \/ UiInitializeEngine
    \/ UiProcessBatchStart \/ UiProcessBatchStep \/ UiProcessBatchFinish
    \/ InitializeEngineDuringBatch
    \/ NextCall

SpecConcurrent == InitUI /\ [][NextConcurrent]_vars

-----------------------------------------------------------------------------
(* Construction of the engine *)

\* before GutenOCREngine(...) is called: no engine, on a machine with or
\* without CUDA
InitNoEngine ==
    /\ cuda_available \in BOOLEAN
    /\ engine = None
    /\ current_model = NoneStr
    /\ self_use_cpu = FALSE
    /\ processor = None
    /\ handler = "none"
    /\ DOCLING_AVAILABLE = FALSE
    /\ use_docling = FALSE
    /\ docling_converter = NoneStr
    /\ InitEmptyDirectory /\ InitDirectories /\ InitCalls

\* GutenOCREngine(model_id, device, use_cpu, torch_dtype)
ConstructEngine ==
    /\ pc = "idle" /\ op = "none"
    /\ \E m \in ModelIds, d \in Devices, cpu \in BOOLEAN, t \in TorchDtypes,
          loadOk \in BOOLEAN :
        LET e == GutenOCREngine(m, d, cpu, t, cuda_available, loadOk)
        IN  /\ op' = "GutenOCREngine"
            /\ args' = [model_id |-> m, device |-> d, use_cpu |-> cpu,
                        torch_dtype |-> t]
            /\ ret' = e
            /\ engine' = IF Raised(e) THEN engine ELSE e.value
    /\ calls' = << >>
    /\ UNCHANGED << pc, platform, selection, processor, handler, docling,
                    directories, batch >>

\* GutenOCREngine.get_device_info on the engine constructed last
GetDeviceInfo ==
    /\ pc = "idle" /\ op = "none"
    /\ engine # None
    /\ \E count \in { 1, 2 } :
        ret' = Return(get_device_info(engine, cuda_available, count))
    /\ op' = "get_device_info"
    /\ args' = None
    /\ calls' = << >>
    /\ UNCHANGED << pc, environment, directories, batch >>

NextEngine == ConstructEngine \/ GetDeviceInfo \/ NextCall

SpecEngine == InitNoEngine /\ [][NextEngine]_vars

-----------------------------------------------------------------------------
(* Observations used by the properties *)

\* the invocations of a stage made by the last call
StageCalls(stage) == SelectSeq(calls, LAMBDA c : c.stage = stage)

StageRan(stage) == StageCalls(stage) # << >>

\* what the stage did when the last call invoked it
StageOutcome(stage) == StageCalls(stage)[1].outcome

StageFailed(stage) == StageRan(stage) /\ ~StageOutcome(stage).ok

StageSucceeded(stage) == StageRan(stage) /\ StageOutcome(stage).ok

\* the positions of an atom in a text
Positions(atom, text) == { i \in 1..Len(text) : text[i] = atom }

\* the atom occurs exactly once in the text
Once(atom, text) == Cardinality(Positions(atom, text)) = 1

PositionOf(atom, text) == CHOOSE i \in Positions(atom, text) : TRUE

Banners == { BannerStructure, BannerTables, BannerOcr }

-----------------------------------------------------------------------------
(* Properties of GutenOCREngine *)

\* C1: process_image never raises; a failure of any statement of its try
\* block (opening the image, building the inputs, generate, decode) is
\* returned as a dict with success = False, the image_path that was passed
\* and error = str(e).
C1_ProcessImageNeverRaises ==
    op = "process_image" =>
        /\ ~Raised(ret)
        /\ StageFailed("ocr") =>
              /\ ret.value.success = FALSE
              /\ ret.value.image_path = args.image_path
              /\ "error" \in DOMAIN ret.value
              /\ ret.value.error = StageOutcome("ocr").msg
        /\ StageSucceeded("ocr") =>
              /\ ret.value.success = TRUE
              /\ ret.value.image_path = args.image_path

\* C1 witness: model.generate raised during a process_image call, and the
\* call returned the failure record.
C1_Witness ==
    /\ op = "process_image"
    /\ StageFailed("ocr")
    /\ StageOutcome("ocr").stage = "generate"
    /\ ~Raised(ret)
    /\ ret.value.success = FALSE

\* C10: _generate_prompt returns the table's instruction for a pair the
\* table holds, and the default string for every other pair (an unknown
\* task, or a known task with a format not listed under it); it never raises.
C10_PromptLookup ==
    op = "_generate_prompt" =>
        /\ ~Raised(ret)
        /\ LET t == args.task_type
               f == args.output_format
           IN  IF t \in DOMAIN Prompts /\ f \in DOMAIN Prompts[t]
               THEN ret.value = Prompts[t][f]
               ELSE ret.value = "Read all text in the image."

\* C10 witness: the default was returned for an unknown task combined with
\* a format that the "reading" table lists.
C10_Witness ==
    /\ op = "_generate_prompt"
    /\ args.task_type \notin DOMAIN Prompts
    /\ args.output_format = "TEXT"
    /\ ret.value = "Read all text in the image."

-----------------------------------------------------------------------------
(* Properties of DoclingGutenOCRProcessor.process_document *)

\* the record process_document returned
Record == ret.value

\* C2 (as claimed): when structure extraction or OCR fails during
\* process_document, the record has success = False and a non-empty error.
C2_StageFailureReported ==
    op = "process_document" /\ (StageFailed("docling") \/ StageFailed("ocr")) =>
        /\ ~Raised(ret)
        /\ Record.success = FALSE
        /\ "error" \in DOMAIN Record
        /\ Record.error # ""

\* C4: with both stages enabled they are isolated: whatever structure
\* extraction does, OCR is run on the same file afterwards and its result is
\* stored; whatever OCR does, the structure-extraction result is kept in the
\* record.
C4_StagesIsolated ==
    op = "process_document" /\ use_docling /\ args.extract_structure
                            /\ args.ocr_images =>
        /\ ~Raised(ret)
        /\ Len(calls) = 2
        /\ calls[1].stage = "docling" /\ calls[1].file = args.file_path
        /\ calls[2].stage = "ocr" /\ calls[2].file = args.file_path
        /\ LET d == StageOutcome("docling")
               o == StageOutcome("ocr")
           IN  /\ d.ok => /\ Record.docling_structure.text = d.text
                          /\ Record.docling_structure.tables =
                                 IF args.extract_tables THEN d.tables ELSE << >>
               /\ ~d.ok => Record.docling_structure = [error |-> d.msg]
               /\ o.ok => /\ Record.gutenocr_ocr.success = TRUE
                          /\ Record.gutenocr_ocr.text = o.text
               /\ ~o.ok => /\ Record.gutenocr_ocr.success = FALSE
                           /\ Record.gutenocr_ocr.error = o.msg

\* C4 witness: structure extraction failed and OCR then ran and succeeded
\* on the same file.
C4_Witness ==
    /\ op = "process_document"
    /\ StageFailed("docling")
    /\ StageSucceeded("ocr")
    /\ Record.gutenocr_ocr.text = << "ocr-text" >>

\* C5 (as claimed): when only structure extraction produced output, the
\* combined text is the structure text verbatim; when only OCR produced
\* output, it is the OCR text verbatim.
C5_SingleStageVerbatim ==
    op = "process_document" =>
        /\ StageSucceeded("docling") /\ ~StageSucceeded("ocr") =>
              Record.combined_text = StageOutcome("docling").text
        /\ StageSucceeded("ocr") /\ ~StageSucceeded("docling") =>
              Record.combined_text = StageOutcome("ocr").text

\* the stage ran, succeeded and returned a non-empty text
ProducedText(stage) == StageSucceeded(stage) /\ StageOutcome(stage).text # << >>

\* C6 (as claimed): whenever both stages produced output, the combined text
\* holds the three banners, each once, in the order DOCUMENT STRUCTURE,
\* EXTRACTED TABLES, OCR CONTENT.
C6_ThreeBannersAlways ==
    op = "process_document" /\ ProducedText("docling") /\ ProducedText("ocr") =>
        LET t == Record.combined_text
        IN  /\ \A b \in Banners : Once(b, t)
            /\ PositionOf(BannerStructure, t) < PositionOf(BannerTables, t)
            /\ PositionOf(BannerTables, t) < PositionOf(BannerOcr, t)

\* C6 (amended): whenever both stages produced output, the combined text
\* holds the banners DOCUMENT STRUCTURE and OCR CONTENT, each once and in
\* that order; the banner EXTRACTED TABLES is written, once and between the
\* two, exactly when at least one table was extracted, and not at all
\* otherwise.
C6_BannersInOrder ==
    op = "process_document" /\ ProducedText("docling") /\ ProducedText("ocr") =>
        LET t == Record.combined_text
            d == StageOutcome("docling")
            tables == IF args.extract_tables THEN d.tables ELSE << >>
        IN  /\ Once(BannerStructure, t)
            /\ Once(BannerOcr, t)
            /\ PositionOf(BannerStructure, t) < PositionOf(BannerOcr, t)
            /\ IF tables # << >>
               THEN /\ Once(BannerTables, t)
                    /\ PositionOf(BannerStructure, t) < PositionOf(BannerTables, t)
                    /\ PositionOf(BannerTables, t) < PositionOf(BannerOcr, t)
               ELSE Positions(BannerTables, t) = {}

\* C6 witness: both stages produced text, a table was extracted, and the
\* combined text holds the three banners.
C6_Witness ==
    /\ op = "process_document"
    /\ ProducedText("docling") /\ ProducedText("ocr")
    /\ Record.docling_structure.tables # << >>
    /\ \A b \in Banners : Once(b, Record.combined_text)

\* C7 (as claimed): processing_mode records which stages contributed to the
\* combined text: "combined" only when both did, "docling_only" only when
\* structure extraction alone did, "gutenocr_only" only when OCR alone did,
\* and no other value.
C7_ModeRecordsContributors ==
    op = "process_document" /\ "processing_mode" \in DOMAIN Record.metadata =>
        LET mode == Record.metadata.processing_mode
        IN  /\ mode \in { "combined", "docling_only", "gutenocr_only" }
            /\ mode = "combined" =>
                  StageSucceeded("docling") /\ StageSucceeded("ocr")
            /\ mode = "docling_only" =>
                  StageSucceeded("docling") /\ ~StageSucceeded("ocr")
            /\ mode = "gutenocr_only" =>
                  StageSucceeded("ocr") /\ ~StageSucceeded("docling")

-----------------------------------------------------------------------------
(* Properties of the batches and of discovery *)

\* the files of the invocations of a stage, in the order they were made
StageFiles(stage) ==
    [i \in 1..Len(StageCalls(stage)) |-> StageCalls(stage)[i].file]

\* C3: a failure while one file is processed does not abort a batch.  Both
\* batch_process methods leave the loop only after the last file, with one
\* record per file of the list, in the order of the list; each enabled stage
\* is invoked exactly once per file, in that order; the list is what is
\* returned, and the only exception that leaves a batch is that of the
\* results file which cannot be written.
C3_BatchNotAborted ==
    /\ op = "batch_process" =>
          /\ idx = Len(files)
          /\ Len(results) = Len(files)
          /\ \A i \in 1..Len(files) : results[i].file_path = files[i]
          /\ StageFiles("ocr") = IF args.ocr_images THEN files ELSE << >>
          /\ StageFiles("docling") =
                 IF use_docling /\ args.extract_structure THEN files ELSE << >>
          /\ Raised(ret) <=> ~StageOutcome("write").ok
          /\ ~Raised(ret) => ret.value = results
    /\ op = "engine.batch_process" =>
          /\ ~Raised(ret)
          /\ Len(ret.value) = Len(args.image_paths)
          /\ \A i \in 1..Len(args.image_paths) :
                /\ ret.value[i].image_path = args.image_paths[i]
                /\ ret.value[i].success = calls[i].outcome.ok
          /\ StageFiles("ocr") = args.image_paths

\* C3 witness: a batch over two files in which OCR failed on the first one
\* returned two records, the second one with the text of the second file.
C3_Witness ==
    /\ op = "batch_process"
    /\ ~Raised(ret)
    /\ Len(files) = 2
    /\ Len(ret.value) = 2
    /\ files[1] # files[2]
    /\ args.ocr_images
    /\ ~StageCalls("ocr")[1].outcome.ok
    /\ ret.value[1].gutenocr_ocr.success = FALSE
    /\ ret.value[2].file_path = files[2]
    /\ ret.value[2].gutenocr_ocr.success = TRUE

\* the extension of a name, compared case-insensitively, is in the allow-list
HasSupportedExtension(name) ==
    \E ext \in SUPPORTED_EXTENSIONS : EndsWith(Lower(name), ext)

\* the files discovery is claimed to return
SupportedFiles(recursive) ==
    { PathStr(e) : e \in { x \in dirEntries :
                             /\ recursive \/ Len(x.parts) = 1
                             /\ HasSupportedExtension(Name(x)) } }

\* C8 (as claimed): discover_images returns exactly the files whose
\* extension, compared case-insensitively, is in the allow-list: every such
\* file, and nothing else; without recursive only those directly in the
\* input directory.
C8_DiscoversExactlySupported ==
    op = "discover_images" =>
        Range(ret.value) = SupportedFiles(args.recursive)

IsSorted(list) ==
    \A i \in 1..Len(list) : \A j \in i..Len(list) : StrLeq(list[i], list[j])

\* C9: discover_images returns its paths sorted lexicographically; the list
\* does not depend on the order in which the extensions are iterated or the
\* directory is scanned, so a second call over the same files returns the
\* same list; the records of a batch follow that order.
C9_DiscoverySorted ==
    /\ op = "discover_images" =>
          /\ IsSorted(ret.value)
          /\ \A extOrder \in Orders(MatchingExtensions(input_dir)),
                scanOrder \in Orders(dirEntries) :
                 ret.value = discover_images(input_dir, args.recursive, extOrder, scanOrder)
    /\ pc = "doc_batch" \/ op = "batch_process" =>
          /\ IsSorted(files)
          /\ \A i \in 1..Len(results) : results[i].file_path = files[i]

\* C9 witness: discovery returned two paths, the one whose name starts with
\* an upper-case letter first.
C9_Witness ==
    /\ op = "discover_images"
    /\ Len(ret.value) = 2
    /\ ret.value[1] = PathStr(File(<< << "B", ".", "P", "D", "F" >> >>))
    /\ ret.value[2] = PathStr(File(<< << "a", ".", "p", "n", "g" >> >>))

-----------------------------------------------------------------------------
(* Properties of FileProcessor *)

\* C11: get_statistics never raises a division error.  For the empty list
\* it reports success_rate "0%"; for a list without a successful result
\* (all-failed lists included) the average character count is computed as 0,
\* which is reported as "0.00".
C11_StatisticsNeverDivideByZero ==
    op = "get_statistics" =>
        /\ ~Raised(ret)
        /\ args.results = << >> => ret.value.success_rate = << "0", "%" >>
        /\ Successful(args.results) = << >> =>
              /\ ret.value.total_characters = 0
              /\ ret.value.average_characters_per_image
                     = << "0", ".", "0", "0" >>

\* C11 witness: statistics of a non-empty list in which every result failed
C11_Witness ==
    /\ op = "get_statistics"
    /\ Len(args.results) = MaxResults
    /\ Successful(args.results) = << >>
    /\ ret.value.failed = MaxResults
    /\ ret.value.average_characters_per_image = << "0", ".", "0", "0" >>

\* every result of the list has the same set of fields
Homogeneous(list) == \A i \in 1..Len(list) : DOMAIN list[i] = DOMAIN list[1]

\* C12: save_results with format csv, given a non-empty list of results that
\* all have the same set of fields, writes (when the file can be opened) a
\* header that is that field set in the first result's key order, followed
\* by exactly one row per result, in list order, holding that result's
\* values.
C12_CsvHeaderAndRows ==
    ( /\ op = "save_results" /\ args.format = "csv"
      /\ args.results # << >> /\ Homogeneous(args.results)
      /\ ret # OSError ) =>
        LET header == Keys(args.results[1])
            lines == calls[1].content
        IN  /\ ~Raised(ret)
            /\ Len(calls) = 1 /\ calls[1].file = ret.value
            /\ lines[1] = header
            /\ Range(header) = DOMAIN args.results[1]
            /\ Len(lines) = Len(args.results) + 1
            /\ \A i \in 1..Len(args.results) :
                 /\ Len(lines[i + 1]) = Len(header)
                 /\ \A j \in 1..Len(header) :
                      lines[i + 1][j]
                          = CsvField(header[j], args.results[i][header[j]])

\* C12 witness: a csv file written for two successful results of different
\* images
C12_Witness ==
    /\ op = "save_results" /\ args.format = "csv"
    /\ Len(args.results) = 2 /\ Homogeneous(args.results)
    /\ args.results[1].success /\ args.results[2].success
    /\ args.results[1].image_path # args.results[2].image_path
    /\ ~Raised(ret)
    /\ Len(calls[1].content) = 3
    /\ calls[1].content[1]
         = << "success", "image_path", "task_type", "output_format", "text",
              "prompt" >>

\* C13: every public operation returns normally, with a failure reported as
\* a value, for every input, an unsupported save format and an output
\* directory that cannot be written included.
C13_PublicOperationsNeverRaise ==
    op \in { "get_statistics", "save_results", "save_individual_results",
             "create_summary_report" } => ~Raised(ret)

\* C17: save_individual_results with format txt or json returns one path
\* per result, and the results of different source images are written to
\* different files.
C17_OneFilePerImage ==
    ( /\ op = "save_individual_results" /\ args.format \in { "txt", "json" }
      /\ ~Raised(ret) ) =>
        /\ Len(ret.value) = Len(args.results)
        /\ \A i, j \in 1..Len(args.results) :
             args.results[i].image_path # args.results[j].image_path
                => ret.value[i] # ret.value[j]

-----------------------------------------------------------------------------
(* Properties of the UI handlers *)

UiHandlers ==
    { "initialize_engine", "process_single_image", "process_batch",
      "initialize_processor", "process_single_document",
      "batch_process_documents", "get_capabilities_info" }

\* the text a handler shows as its status: the info box of
\* process_single_image (the text box when the info is empty), the first
\* output of process_single_document, the only output of the others
StatusText ==
    IF op = "process_single_image"
    THEN IF ret.value[2] = << >> THEN ret.value[1] ELSE ret.value[2]
    ELSE IF op = "process_single_document" THEN ret.value[1]
    ELSE ret.value

SuccessOpenings == { CheckMark, DoneMark, "**Processor Capabilities:**" }

FailureOpenings ==
    { CrossMark, FailMark, "Error: ",
      "Error: Please initialize the model first!",
      "No images found in ./input directory" }

\* C14: every UI handler returns a formatted success or failure message,
\* for every input and for every failure of the layers below it (a model
\* that cannot be loaded, a task that is None, a stage that fails, an
\* output directory that cannot be written); no exception escapes a handler.
C14_HandlersAlwaysReturnMessage ==
    op \in UiHandlers =>
        /\ ~Raised(ret)
        /\ StatusText # << >>
        /\ StatusText[1] \in SuccessOpenings \cup FailureOpenings

\* C14 witness: a batch of GutenOCRUI whose results could not be saved
\* returned the error message of the except clause
C14_Witness ==
    /\ op = "process_batch"
    /\ Len(results) = 2
    /\ ret = Return(<< "Error: ", OSError.msg >>)

\* the position in the list being iterated of the file an event is about
FirstIndex(f) ==
    CHOOSE i \in 1..Len(files) : files[i] = f /\ \A j \in 1..(i - 1) : files[j] # f

\* the file a result is about
ResultFile(r) ==
    IF "file_path" \in DOMAIN r THEN r.file_path ELSE r.image_path

WriteEvents == SelectSeq(calls, LAMBDA c : c.stage = "write")

\* C15: a batch is strictly sequential.  While a batch runs, the results
\* of exactly the files before the current one have been appended, in the
\* order of the list, every stage invocation made so far is about one of
\* those files, the invocations follow the order of the list, and nothing
\* has been written; the aggregate results are written only when every file
\* of the list has its result.
C15_BatchSequential ==
    /\ pc \in { "ui_batch", "doc_batch" } =>
         /\ Len(results) = idx
         /\ \A i \in 1..idx : ResultFile(results[i]) = files[i]
         /\ WriteEvents = << >>
         /\ \A k \in 1..Len(calls) :
              /\ calls[k].file \in Range(SubSeq(files, 1, idx))
              /\ \A l \in k..Len(calls) :
                   FirstIndex(calls[k].file) <= FirstIndex(calls[l].file)
    /\ ( /\ pc = "idle"
         /\ op \in { "process_batch", "batch_process", "batch_process_documents" }
         /\ WriteEvents # << >> ) =>
         /\ Len(results) = Len(files)
         /\ \A i \in 1..Len(files) : ResultFile(results[i]) = files[i]
         /\ \A k, l \in 1..Len(calls) :
              (calls[k].stage = "write" /\ calls[l].stage # "write") => l < k

\* C15 witness: a batch of GutenOCRUI over two files between the first file
\* and the second one
C15_Witness ==
    /\ pc = "ui_batch"
    /\ Len(files) = 2 /\ idx = 1
    /\ Len(results) = 1 /\ results[1].image_path = files[1]
    /\ Len(calls) = 1 /\ calls[1].file = files[1]

-----------------------------------------------------------------------------
(* Frame properties *)

\* C16: no operation changes state that persists across calls.  Whenever
\* an operation has returned, the file processor of the processor still has
\* the input and output directories it was configured with at construction,
\* and the fields of the processor and of the engine are those construction
\* left.
C16_ConfiguredDirectoriesKept ==
    (pc = "idle" /\ ~Raised(ret)) =>
        /\ input_dir = InputDir
        /\ output_dir = OutputDir
        /\ engine = DefaultEngine
        /\ processor = [gutenocr |-> DefaultEngine]
        /\ \E requested \in BOOLEAN, converterOk \in BOOLEAN :
             LET f == ProcessorFields(DOCLING_AVAILABLE, requested, converterOk)
             IN  /\ use_docling = f.use_docling
                 /\ docling_converter = f.docling_converter

-----------------------------------------------------------------------------
(* The prompt of process_image *)

\* the prompt process_image handed to the model, NoneStr if it handed none
SentPrompt == calls[1].prompt

\* C18 as stated: a supplied custom_prompt (any value other than None)
\* overrides the table lookup, for the prompt sent to the model and for the
\* prompt field of a successful result; without one both are
\* _generate_prompt(task_type, output_format).
C18_SuppliedPromptOverrides ==
    op = "process_image" =>
        LET expected == IF args.custom_prompt # NoneStr THEN args.custom_prompt
                        ELSE _generate_prompt(args.task_type, args.output_format)
        IN  /\ SentPrompt # NoneStr => SentPrompt = expected
            /\ ret.value.success => ret.value.prompt = expected

\* C18 amended: a custom_prompt that is neither None nor the empty string
\* overrides the table lookup, for the prompt sent to the model and for the
\* prompt field of a successful result; for None and for the empty string
\* both are _generate_prompt(task_type, output_format).
C18_NonEmptyPromptOverrides ==
    op = "process_image" =>
        LET expected == IF args.custom_prompt \notin { NoneStr, "" }
                        THEN args.custom_prompt
                        ELSE _generate_prompt(args.task_type, args.output_format)
        IN  /\ SentPrompt # NoneStr => SentPrompt = expected
            /\ ret.value.success => ret.value.prompt = expected

\* C18 witness: a successful call with a custom prompt, for a task and a
\* format that have their own prompt in the table
C18_Witness ==
    /\ op = "process_image"
    /\ args.task_type = "detection" /\ args.output_format = "BOX"
    /\ args.custom_prompt = "Transcribe the stamp only."
    /\ ret.value.success
    /\ ret.value.prompt = "Transcribe the stamp only."
    /\ SentPrompt = "Transcribe the stamp only."

-----------------------------------------------------------------------------
(* Device selection *)

-----------------------------------------------------------------------------
(* The record of process_document *)

RecordFields ==
    { "file_path", "timestamp", "docling_structure", "gutenocr_ocr",
      "combined_text", "metadata", "success" }

\* C20: every record returned by process_document has the fields file_path,
\* timestamp, docling_structure, gutenocr_ocr, combined_text, metadata and
\* success, its file_path is the path that was passed, and it has an error
\* field exactly when its success is false.
C20_RecordFields ==
    op = "process_document" =>
        /\ ~Raised(ret)
        /\ RecordFields \subseteq DOMAIN ret.value
        /\ ret.value.file_path = args.file_path
        /\ ret.value.success \in BOOLEAN
        /\ (("error" \in DOMAIN ret.value) <=> ~ret.value.success)

\* C20 witness: a document whose OCR stage failed inside process_image is
\* returned as a record with all the fields, success true and no error
C20_Witness ==
    /\ op = "process_document"
    /\ args.ocr_images
    /\ Len(calls) > 0 /\ ~calls[Len(calls)].outcome.ok
    /\ RecordFields \subseteq DOMAIN ret.value
    /\ ret.value.file_path = args.file_path
    /\ ret.value.success
    /\ "error" \notin DOMAIN ret.value

-----------------------------------------------------------------------------
(* The counts of get_statistics *)

\* the indices of the results whose success flag is true
SuccessIndices(list) ==
    { i \in 1..Len(list) : "success" \in DOMAIN list[i] /\ list[i].success = TRUE }

\* the number of characters of the text of a result
TextLength(r) == IF "text" \in DOMAIN r THEN CharCount(r.text) ELSE 0

\* the text lengths of the first n results, the failed ones counted as 0
RECURSIVE SuccessfulTextLength(_, _)
SuccessfulTextLength(list, n) ==
    IF n = 0 THEN 0
    ELSE ( IF n \in SuccessIndices(list) THEN TextLength(list[n]) ELSE 0 )
         + SuccessfulTextLength(list, n - 1)

\* C21: for every result list, get_statistics reports total_images = the
\* length of the list, successful = the number of results whose success flag
\* is true, failed = total_images - successful, and total_characters = the
\* sum of the text lengths of the successful results only.
C21_StatisticsCounts ==
    op = "get_statistics" =>
        LET list == args.results
            st == ret.value
        IN  /\ ~Raised(ret)
            /\ st.total_images = Len(list)
            /\ st.successful + st.failed = st.total_images
            /\ st.successful = Cardinality(SuccessIndices(list))
            /\ st.total_characters = SuccessfulTextLength(list, Len(list))

\* C21 witness: statistics of a list with a successful result that has text
\* and a failed one
C21_Witness ==
    /\ op = "get_statistics"
    /\ Len(args.results) = 2
    /\ ret.value.successful = 1 /\ ret.value.failed = 1
    /\ ret.value.total_characters > 0

-----------------------------------------------------------------------------
(* The metadata of process_document *)

\* the flag named key is set to true in the metadata md
Flag(md, key) == key \in DOMAIN md /\ md[key] = TRUE

\* C22: in a record of process_document, metadata.docling_processed is true
\* exactly when the Docling stage ran (Docling in use and extract_structure
\* set), metadata.gutenocr_processed is true exactly when the OCR stage ran
\* (ocr_images set), and a record for which neither stage ran has empty
\* metadata (so no processing_mode) and empty combined_text.
C22_MetadataFlags ==
    op = "process_document" =>
        LET md == ret.value.metadata
            structure == use_docling /\ args.extract_structure
        IN  /\ Flag(md, "docling_processed") <=> structure
            /\ StageRan("docling") <=> structure
            /\ "docling_processed" \in DOMAIN md => md["docling_processed"] = TRUE
            /\ Flag(md, "gutenocr_processed") <=> args.ocr_images
            /\ StageRan("ocr") <=> args.ocr_images
            /\ "gutenocr_processed" \in DOMAIN md => md["gutenocr_processed"] = TRUE
            /\ (~structure /\ ~args.ocr_images) =>
                  /\ DOMAIN md = {}
                  /\ ret.value.combined_text = << >>

\* C22 witness: with Docling in use, a call with extract_structure = False
\* and ocr_images = True yields only the gutenocr_processed flag
C22_Witness ==
    /\ op = "process_document"
    /\ use_docling /\ ~args.extract_structure /\ args.ocr_images
    /\ DOMAIN ret.value.metadata = { "gutenocr_processed", "processing_mode" }
    /\ ret.value.metadata["gutenocr_processed"] = TRUE

\* a call in which neither stage ran
NeitherStageRan ==
    /\ op = "process_document"
    /\ ~args.ocr_images /\ ~(use_docling /\ args.extract_structure)
    /\ DOMAIN ret.value.metadata = {}

-----------------------------------------------------------------------------
(* The sections of _merge_results *)

\* the atom occurs in the text
Occurs(atom, text) == Positions(atom, text) # {}

\* every occurrence of the first atom is before every occurrence of the second
Before(first, second, text) ==
    \A i \in Positions(first, text), j \in Positions(second, text) : i < j

\* C23: in the text _merge_results returns, each banner occurs at most once
\* and those that occur are in the order DOCUMENT STRUCTURE, EXTRACTED
\* TABLES, OCR CONTENT; the OCR CONTENT banner occurs exactly when the OCR
\* result is successful with a non-empty text; and neither the OCR section
\* nor the error of a failed OCR result, nor any section or the error of a
\* failed structure extraction, occurs in it.
C23_MergedSections ==
    op = "process_document" /\ StageRan("docling") /\ StageRan("ocr") =>
        LET t == Record.combined_text
        IN  /\ t = _merge_results(Record.docling_structure, Record.gutenocr_ocr)
            /\ \A b \in Banners : Cardinality(Positions(b, t)) <= 1
            /\ Before(BannerStructure, BannerTables, t)
            /\ Before(BannerTables, BannerOcr, t)
            /\ Before(BannerStructure, BannerOcr, t)
            /\ Occurs(BannerOcr, t) <=> ProducedText("ocr")
            /\ StageFailed("ocr") =>
                  /\ ~Occurs("ocr-text", t)
                  /\ ~Occurs(StageOutcome("ocr").msg, t)
            /\ StageFailed("docling") =>
                  /\ ~Occurs(BannerStructure, t) /\ ~Occurs(BannerTables, t)
                  /\ ~Occurs("docling-markdown", t)
                  /\ ~Occurs("{table-data}", t)
                  /\ ~Occurs(StageOutcome("docling").msg, t)

\* C23 witness: the structure extraction failed and the OCR produced text:
\* the merged text holds the OCR CONTENT section only
C23_Witness ==
    /\ op = "process_document"
    /\ StageFailed("docling") /\ ProducedText("ocr")
    /\ StageOutcome("docling").msg # ""
    /\ Occurs(BannerOcr, Record.combined_text)
    /\ Occurs("ocr-text", Record.combined_text)
    /\ ~Occurs(BannerStructure, Record.combined_text)

-----------------------------------------------------------------------------
(* Requests before initialization *)

\* the handlers of GutenOCRUI and of DoclingGutenOCRUI that process files
EngineRequests == { "process_single_image", "process_batch" }

ProcessorRequests == { "process_single_document", "batch_process_documents" }

\* C24: a single-file or batch request handled while the engine (GutenOCRUI)
\* or the processor (DoclingGutenOCRUI) is None returns the "initialize
\* first" message, invokes no stage of the model, takes no list of
\* discovered files and writes no file; and no batch is running while the
\* object it runs on is None.
C24_NoProcessingBeforeInitialization ==
    /\ (op \in EngineRequests /\ engine = None) =>
          /\ calls = << >> /\ files = << >> /\ results = << >>
          /\ op = "process_single_image" =>
                ret = Return(<< << "Error: Please initialize the model first!" >>,
                                << >> >>)
          /\ op = "process_batch" =>
                ret = Return(<< "Error: Please initialize the model first!" >>)
    /\ (op \in ProcessorRequests /\ processor = None) =>
          /\ calls = << >> /\ files = << >> /\ results = << >>
          /\ op = "process_single_document" =>
                ret = Return(<< << FailMark, " Please initialize the processor first!" >>,
                                None, None >>)
          /\ op = "batch_process_documents" =>
                ret = Return(<< FailMark, " Please initialize the processor first!" >>)
    /\ pc = "ui_batch" => engine # None
    /\ handler = "batch_process_documents" => processor # None

\* C24 witness: process_batch was requested with no engine while the input
\* directory holds images, and answered with the message
C24_Witness ==
    /\ op = "process_batch"
    /\ engine = None
    /\ dirEntries # {}
    /\ ret = Return(<< "Error: Please initialize the model first!" >>)
    /\ calls = << >> /\ files = << >>

-----------------------------------------------------------------------------
(* Failed initializations *)

\* the fields of the processor held by DoclingGutenOCRUI
heldProcessor == << processor, use_docling, docling_converter >>

\* C25: a call of initialize_engine that returns the error message leaves
\* engine, current_model and use_cpu of the UI as they were, and a call of
\* initialize_processor that returns the error message leaves the processor
\* the UI holds (or None) as it was.
C25_FailedInitializationKeepsState ==
    [][ /\ (op' = "initialize_engine" /\ op = "none" /\ ret'.value[1] = CrossMark) =>
              /\ engine' = engine
              /\ current_model' = current_model
              /\ self_use_cpu' = self_use_cpu
        /\ (op' = "initialize_processor" /\ op = "none" /\ ret'.value[1] = FailMark) =>
              heldProcessor' = heldProcessor ]_vars

\* C25 witness: initialize_engine failed for another choice than the one of
\* the engine the UI holds, and the UI still holds that engine and choice
C25_Witness ==
    /\ op = "initialize_engine"
    /\ ret.value[1] = CrossMark
    /\ engine # None
    /\ current_model # NoneStr /\ current_model # args.model_choice
    /\ self_use_cpu # args.use_cpu
    /\ engine.model_id = ModelMap[current_model]

-----------------------------------------------------------------------------
(* Completion of process_batch *)

\* process_batch has returned after its loop went through a non-empty list
\* of discovered images, with an output directory that can be written
BatchLoopDone ==
    /\ op = "process_batch"
    /\ engine # None
    /\ files # << >>
    /\ Len(results) = Len(files)
    /\ ret # Return(<< "Error: ", OSError.msg >>)

\* C26: for every save format (JSON, TXT, CSV) and every mix of successes
\* and failures over a non-empty list of discovered images, process_batch
\* completes: the combined results file, the summary report and one
\* individual file per image are written, and the message returned reports
\* the statistics of the results.
C26_BatchCompletes ==
    BatchLoopDone =>
        /\ ret.value[1] = CheckMark
        /\ Len(WriteEvents) = Len(files) + 2
        /\ ret.value[4].processed = Len(files)
        /\ ret.value[4].success = Len(Successful(results))
        /\ ret.value[4].failed = Len(files) - Len(Successful(results))
        /\ ret.value[4].individual = Len(files)

\* the same for the save formats JSON and TXT
BatchCompletesJsonTxt ==
    (BatchLoopDone /\ args.save_format = "CSV") \/ C26_BatchCompletes

\* the same for results that all succeeded or all failed
BatchCompletesUniform == Homogeneous(results) => C26_BatchCompletes

-----------------------------------------------------------------------------
(* process_batch on a directory without images *)

\* the extension of the entry is on the allow-list, whatever its case
Supported(e) == \E ext \in SUPPORTED_EXTENSIONS : EndsWith(Lower(Name(e)), ext)

NoImagesMessage == Return(<< "No images found in ./input directory" >>)

\* C27: when the input directory holds no supported file, process_batch of
\* an initialized GutenOCRUI returns the "No images found" message; and
\* whenever it returns that message the engine was not invoked, and no
\* results file, summary or individual file was written.
C27_NoImagesNoProcessing ==
    (op = "process_batch" /\ engine # None) =>
        /\ (\A e \in dirEntries : ~Supported(e)) => ret = NoImagesMessage
        /\ ret = NoImagesMessage =>
              calls = << >> /\ results = << >> /\ files = << >>

\* C27 witness: the input directory holds only a text file, and
\* process_batch of an initialized UI answered "No images found"
C27_Witness ==
    /\ op = "process_batch" /\ engine # None
    /\ dirEntries # {}
    /\ \A e \in dirEntries : ~Supported(e)
    /\ ret = NoImagesMessage
    /\ calls = << >>

-----------------------------------------------------------------------------
(* The engine of a batch *)

\* the engines that processed the images of the batch so far
BatchEngines ==
    { StageCalls("ocr")[i].engine : i \in 1..Len(StageCalls("ocr")) }

\* C28: every image of one process_batch is processed by one and the same
\* engine, the one the UI held when the batch started, also when
\* initialize_engine completes while the batch runs.
C28_OneEngineForBatch ==
    (pc = "ui_batch" \/ (op = "process_batch" /\ results # << >>)) =>
        Cardinality(BatchEngines) <= 1

-----------------------------------------------------------------------------
(* Duplicates in discovery *)

\* no element occurs twice in the list
NoDuplicates(list) ==
    \A i \in 1..Len(list) : \A j \in 1..Len(list) : list[i] = list[j] => i = j

\* C29: discover_images returns no path more than once, although every
\* extension is globbed in lower and in upper case; so no file is processed
\* twice in a batch.
C29_NoDuplicatePaths ==
    /\ op = "discover_images" => NoDuplicates(ret.value)
    /\ (pc = "doc_batch" \/ op = "batch_process") => NoDuplicates(files)

\* the same on a platform whose glob is case-sensitive
NoDuplicatePathsCaseSensitive == caseSensitive => C29_NoDuplicatePaths

-----------------------------------------------------------------------------
(* The use of Docling *)

ExtendedFormats == { "DOCX", "PPTX", "HTML", "MD" }

\* C30: use_docling of a constructed processor is true only if the Docling
\* library could be imported, Docling was requested and the converter was
\* constructed; the Docling stage is only invoked on a processor that holds
\* a converter; and get_capabilities reports docling_available and the
\* formats of Docling exactly when use_docling is true.
C30_DoclingOnlyWhenInitialized ==
    /\ use_docling =>
          /\ processor # None
          /\ DOCLING_AVAILABLE
          /\ docling_converter = "DocumentConverter"
    /\ (op = "initialize_processor" /\ ret.value[1] = DoneMark) =>
          /\ use_docling => args.use_docling
          /\ (ret.value[4].docling = "Enabled") <=> use_docling
    /\ StageRan("docling") =>
          use_docling /\ docling_converter = "DocumentConverter"
    /\ (op = "get_capabilities_info" /\ processor # None) =>
          /\ ret.value[3].docling_available = use_docling
          /\ \A f \in ExtendedFormats :
                f \in Range(ret.value[3].supported_formats) <=> use_docling

\* C30 witness: a processor that was initialized with Docling reports it in
\* its capabilities
C30_Witness ==
    /\ op = "get_capabilities_info" /\ processor # None
    /\ use_docling /\ DOCLING_AVAILABLE
    /\ docling_converter = "DocumentConverter"
    /\ ret.value[3].docling_available = TRUE
    /\ ExtendedFormats \subseteq Range(ret.value[3].supported_formats)

\* a processor for which Docling was requested and importable, but whose
\* converter could not be constructed
ConverterFailed ==
    /\ op = "initialize_processor" /\ ret.value[1] = DoneMark
    /\ args.use_docling /\ DOCLING_AVAILABLE
    /\ ~use_docling /\ docling_converter = "<unset>"

=============================================================================
